---------------------------- MODULE Spec2Model ----------------------------
(***************************************************************************)
(* Balance accounting engine of mile-api: CashBalance / FloatBalance rows, *)
(* the Transaction and FloatMovement ledgers, and the handlers that create,*)
(* update and delete ledger rows while mutating the balances.              *)
(*                                                                         *)
(* Amounts and balances are NUMERIC(15,2) values, modelled as integers in  *)
(* units of 0.01.  Every handler is a small program over a SQLAlchemy      *)
(* session: its steps are the SQL round trips of the code (one SELECT, or  *)
(* one flush+COMMIT), given by StepSession.  Spec runs each handler to     *)
(* completion in one action (requests one after the other); SpecConc       *)
(* interleaves the steps of the requests of several clients and lets a     *)
(* request die between two steps; its first request is served alone.       *)
(***************************************************************************)
EXTENDS Integers, FiniteSets, Sequences, TLC

(***************************************************************************)
(* Bounds of the model.                                                    *)
(***************************************************************************)
MaxOps == 2         \* requests that pass their guard in one run of Spec
MaxConcOps == 3     \* requests that pass their guard in one run of SpecConc
MaxAuthOps == 4     \* requests in one run of SpecAuth
MaxAuthConcOps == 3 \* requests in one run of SpecAuthConc

\* The amounts of the requests of a run, in units of 0.01.
Amounts == {1, 2}

(***************************************************************************)
(* Static tables (shops, users, cashiers, providers): never written by the *)
(* handlers modelled here.                                                 *)
(***************************************************************************)
Shops     == {"s1", "s2"}
Users     == {"u1", "u2", "u3"}
Providers == {"p1", "p2"}
Clients   == {"c1", "c2"}

\* Shop.owner_id
ShopOwner == [s \in Shops |-> IF s = "s1" THEN "u1" ELSE "u2"]
\* Cashier rows (user_id, shop_id)
Cashiers == {<<"u3", "s1">>}
\* Provider.shop_id
ProviderShop == [p \in Providers |-> IF p = "p1" THEN "s1" ELSE "s2"]

(***************************************************************************)
(* Enumerations.                                                           *)
(***************************************************************************)
Category == {"mobile", "bank"}

TransactionType ==
    {"deposit", "withdrawal", "airtime", "bundle", "electricity", "water",
     "tv", "other_utility", "bank_deposit", "bank_withdrawal", "bill_payment",
     "funds_transfer", "account_to_wallet", "wallet_to_account"}

FloatOperationType == {"top_up", "withdraw"}

(***************************************************************************)
(* Python values that take part in a comparison.  A str and a member of a  *)
(* plain enum.Enum are different values even when the member's value is    *)
(* that str: TransactionType.withdrawal == "withdrawal" is False.          *)
(***************************************************************************)
PyStr(v)  == [py |-> "str", v |-> v]
PyEnum(v) == [py |-> "TransactionType", v |-> v]

\* WITHDRAWAL_TYPES: a list of the members' .value, i.e. of str
WITHDRAWAL_TYPES == {PyStr("withdrawal"), PyStr("bank_withdrawal")}

\* The Enum(TransactionType) column: a str or a member is stored as the
\* label; a loaded row always carries the member.
ColumnStore(x) == x.v
ColumnLoad(label) == PyEnum(label)

(***************************************************************************)
(* Database state (committed rows).                                        *)
(***************************************************************************)
VARIABLES
    transactions,      \* id -> Transaction row
    float_movements,   \* id -> FloatMovement row
    float_balances,    \* <<shop_id, provider_id, category>> -> FloatBalance row
    cash_balances,     \* shop_id -> CashBalance row
    issued,            \* primary keys issued so far, per ledger table
    now,               \* logical clock: requests accepted so far
    session,           \* client -> the request it is running (SpecConc)
    response,          \* client -> the last response it received
    users,             \* user id -> the password columns of the User row
    refresh_tokens,    \* token -> RefreshToken row
    password_reset_tokens,  \* id -> PasswordResetToken row
    auth_session,      \* client -> the auth request it is running (SpecAuthConc)
    auth_response      \* client -> the last response of an auth route

\* The tables and sessions of the auth routes.
authvars == <<users, refresh_tokens, password_reset_tokens, auth_session,
              auth_response>>

vars == <<transactions, float_movements, float_balances, cash_balances,
          issued, now, session, response, authvars>>

\* The committed database as one value.
DB == [transactions    |-> transactions,
       float_movements |-> float_movements,
       float_balances  |-> float_balances,
       cash_balances   |-> cash_balances,
       issued          |-> issued]

FloatKey(shop_id, provider_id, category) == <<shop_id, provider_id, category>>
FloatKeys == Shops \X Providers \X Category

\* What a reader of the balance sees: a missing row reads as zero.
FloatOf(D, k) == IF k \in DOMAIN D.float_balances THEN D.float_balances[k].balance ELSE 0
CashOf(D, shop_id) == IF shop_id \in DOMAIN D.cash_balances THEN D.cash_balances[shop_id].balance ELSE 0

\* f with the value at x set to v, x added to the domain when new.
Put(f, x, v) == [y \in DOMAIN f \cup {x} |-> IF y = x THEN v ELSE f[y]]
\* f without x.
Drop(f, x) == [y \in DOMAIN f \ {x} |-> f[y]]

(***************************************************************************)
(* Requests, sessions and responses.                                       *)
(***************************************************************************)
\* A request body with its path parameters and the authenticated user.
\* amount is the set of values of the "amount" key: empty when the key is
\* absent (update_float_movement and update_transaction read it with
\* body.get).
NoRequest ==
    [op |-> "none", user |-> "none", shop_id |-> "none", provider_id |-> "none",
     category |-> "none", type |-> "none", amount |-> {}, is_new_capital |-> FALSE,
     id |-> 0, adjustment_type |-> "none"]

\* body.get("amount", default)
BodyGetAmount(req, default) ==
    IF req.amount = {} THEN default ELSE CHOOSE a \in req.amount : TRUE

\* A ledger row as loaded into the session.
NoRow ==
    [shop_id |-> "none", provider_id |-> "none", category |-> "none",
     type |-> "none", amount |-> 0, is_new_capital |-> FALSE]

\* A balance object of the session: "persistent" (loaded from its row),
\* "pending" (constructed, INSERTed by the next flush) or "none" (.first()
\* found no row).
NoObject == [state |-> "none", balance |-> 0, opening_balance |-> 0]

\* Arguments of a call of update_balances.
NoCall ==
    [shop_id |-> "none", provider_id |-> "none", category |-> "none",
     amount |-> 0, operation |-> "none", is_new_capital |-> FALSE]

\* The balance_updates payload.
BalanceUpdates(prev_float, cur_float, prev_cash, cur_cash) ==
    [float_balance |-> [previous |-> prev_float, current |-> cur_float,
                        change |-> cur_float - prev_float],
     cash_balance  |-> [previous |-> prev_cash, current |-> cur_cash,
                        change |-> cur_cash - prev_cash]]

NoBalances == BalanceUpdates(0, 0, 0, 0)

\* Python numbers that take part in the arithmetic of a response: a
\* Numeric(15,2) column loads as a Decimal, float(x) is a float.
PyDecimal(n) == [py |-> "Decimal", v |-> n]
PyFloat(n)   == [py |-> "float", v |-> n]

\* balance - previous with balance a Decimal: Decimal.__sub__ takes an int or
\* a Decimal; with a float the subtraction raises TypeError.
DecimalMinus(balance, previous) ==
    IF previous.py = "float" THEN [py |-> "TypeError", v |-> 0]
    ELSE PyDecimal(balance.v - previous.v)

\* The balance_updates of a handler that keeps prev_float and prev_cash in
\* the given Python type: "change": float(balance - previous).
BalanceUpdatesOf(prev_float, float_balance, prev_cash, cash_balance) ==
    LET fc == DecimalMinus(float_balance, prev_float)
        cc == DecimalMinus(cash_balance, prev_cash)
    IN  IF fc.py = "TypeError" \/ cc.py = "TypeError"
        THEN [ok |-> FALSE, balance_updates |-> NoBalances]
        ELSE [ok |-> TRUE,
              balance_updates |-> BalanceUpdates(prev_float.v, float_balance.v,
                                                 prev_cash.v, cash_balance.v)]

\* What the client receives; commits is the number of COMMITs of the request
\* that changed the database.
NoResponse ==
    [status |-> 0, op |-> "none", id |-> 0, balance_updates |-> NoBalances,
     commits |-> 0]

\* commits counts the COMMITs of this request that changed the database.
Idle ==
    [pc |-> "idle", req |-> NoRequest, row |-> NoRow,
     float_balance |-> NoObject, cash_balance |-> NoObject,
     prev_float |-> 0, prev_cash |-> 0,
     ub |-> NoCall, ret |-> "none", balances |-> NoBalances,
     commits |-> 0, result |-> NoResponse]

Step(D, s) == [db |-> D, s |-> s]

\* The request ends with the response of the handler.
Return(D, s, balances) ==
    Step(D, [s EXCEPT !.pc = "done",
                      !.result = [status |-> 200, op |-> s.req.op, id |-> s.req.id,
                                  balance_updates |-> balances,
                                  commits |-> s.commits]])

\* An exception leaves the handler: get_db closes the session, which rolls
\* back whatever was not committed; the client receives a 500.
Raise(D, s) ==
    Step(D, [s EXCEPT !.pc = "failed",
                      !.result = [status |-> 500, op |-> s.req.op, id |-> s.req.id,
                                  balance_updates |-> NoBalances,
                                  commits |-> s.commits]])

\* The handler builds its response after its last commit: the response, or
\* the exception raised while building it.
Respond(D, s, payload) ==
    IF payload.ok THEN Return(D, s, payload.balance_updates) ELSE Raise(D, s)

(***************************************************************************)
(* The unit of work.  A flush writes, for a persistent object, the columns *)
(* whose value differs from the loaded one (UPDATE ... SET col = value),   *)
(* and for a pending object the whole row.                                 *)
(***************************************************************************)
Flush(obj, loaded, value, committed) ==
    IF obj.state = "pending" THEN value
    ELSE IF value # loaded THEN value ELSE committed

LoadFloat(D, k) ==
    IF k \in DOMAIN D.float_balances
    THEN [state |-> "persistent", balance |-> D.float_balances[k].balance,
          opening_balance |-> 0]
    ELSE NoObject

LoadCash(D, shop_id) ==
    IF shop_id \in DOMAIN D.cash_balances
    THEN [state |-> "persistent", balance |-> D.cash_balances[shop_id].balance,
          opening_balance |-> D.cash_balances[shop_id].opening_balance]
    ELSE NoObject

\* An object constructed with balance=0, added to the session.
Pending == [state |-> "pending", balance |-> 0, opening_balance |-> 0]

\* INSERT of a pending object whose unique key another session has
\* committed meanwhile: IntegrityError.
FloatConflict(D, obj, k) == obj.state = "pending" /\ k \in DOMAIN D.float_balances
CashConflict(D, obj, shop_id) == obj.state = "pending" /\ shop_id \in DOMAIN D.cash_balances

(***************************************************************************)
(* update_balances (app/utils/helpers.py).                                 *)
(***************************************************************************)
UpdatedFloatTopUpOnly(balance, amount, operation) ==
    IF operation = "top_up" THEN balance + amount ELSE balance

UpdatedFloat(balance, amount, operation) ==
    IF operation = "top_up" THEN balance + amount
    ELSE IF operation = "withdraw" THEN balance - amount
    ELSE balance

UpdatedCashIgnoringCapital(balance, amount, operation, is_new_capital) ==
    IF operation = "top_up" THEN balance - amount
    ELSE IF operation = "withdraw" THEN balance + amount
    ELSE balance

UpdatedCashNoWithdrawCredit(balance, amount, operation, is_new_capital) ==
    IF operation = "top_up"
    THEN IF ~is_new_capital THEN balance - amount ELSE balance
    ELSE balance

UpdatedCash(balance, amount, operation, is_new_capital) ==
    IF operation = "top_up"
    THEN IF ~is_new_capital THEN balance - amount ELSE balance
    ELSE IF operation = "withdraw" THEN balance + amount
    ELSE balance

\* float_balance = db.query(FloatBalance).filter_by(...).first(), or a new one
UbQueryFloat(D, s) ==
    LET k   == FloatKey(s.ub.shop_id, s.ub.provider_id, s.ub.category)
        got == LoadFloat(D, k)
        obj == IF got.state = "none" THEN Pending ELSE got
    IN  Step(D, [s EXCEPT !.float_balance = obj, !.prev_float = obj.balance,
                          !.pc = "ub_q_cash"])

\* cash_balance = db.query(CashBalance).filter_by(shop_id=shop_id).first(), or a new one
UbQueryCash(D, s) ==
    LET got == LoadCash(D, s.ub.shop_id)
        obj == IF got.state = "none" THEN Pending ELSE got
    IN  Step(D, [s EXCEPT !.cash_balance = obj, !.prev_cash = obj.balance,
                          !.pc = "ub_commit"])

\* Where update_balances returns to.
AfterUpdateBalances(D, s, balances) ==
    IF s.ret \in {"ufm_commit", "dfm_commit"}
    THEN Step(D, [s EXCEPT !.pc = s.ret, !.balances = balances])
    ELSE Return(D, [s EXCEPT !.balances = balances], balances)

\* the arithmetic, last_updated, db.commit(), the two db.refresh, the result
UbCommit(D, s, t) ==
    LET k    == FloatKey(s.ub.shop_id, s.ub.provider_id, s.ub.category)
        shop == s.ub.shop_id
        fnew == UpdatedFloat(s.float_balance.balance, s.ub.amount, s.ub.operation)
        cnew == UpdatedCash(s.cash_balance.balance, s.ub.amount, s.ub.operation,
                            s.ub.is_new_capital)
        frow == [balance |-> Flush(s.float_balance, s.float_balance.balance, fnew,
                                   FloatOf(D, k)),
                 last_updated |-> t]
        crow == [balance |-> Flush(s.cash_balance, s.cash_balance.balance, cnew,
                                   CashOf(D, shop)),
                 opening_balance |->
                     IF s.cash_balance.state = "pending" THEN 0
                     ELSE D.cash_balances[shop].opening_balance,
                 last_updated |-> t]
        D2   == [D EXCEPT !.float_balances = Put(@, k, frow),
                          !.cash_balances = Put(@, shop, crow)]
    IN  IF FloatConflict(D, s.float_balance, k) \/ CashConflict(D, s.cash_balance, shop)
        THEN Raise(D, s)
        ELSE AfterUpdateBalances(D2, [s EXCEPT !.commits = @ + 1],
                 BalanceUpdatesOf(PyDecimal(s.prev_float), PyDecimal(frow.balance),
                                  PyDecimal(s.prev_cash), PyDecimal(crow.balance)).balance_updates)

(***************************************************************************)
(* create_float_topup, create_float_withdraw (app/api/routes/shops.py).    *)
(***************************************************************************)
\* db.add(movement); db.commit(); db.refresh(movement); then the call of
\* update_balances
FmInsert(D, s, t) ==
    LET id   == D.issued.float_movements + 1
        top  == s.req.op = "create_float_topup"
        amt  == BodyGetAmount(s.req, 0)
        row  == [shop_id |-> s.req.shop_id, provider_id |-> s.req.provider_id,
                 type |-> IF top THEN "top_up" ELSE "withdraw",
                 category |-> s.req.category, amount |-> amt,
                 is_new_capital |-> IF top THEN s.req.is_new_capital ELSE FALSE,
                 updated_at |-> t]
        D2   == [D EXCEPT !.float_movements = Put(@, id, row),
                          !.issued.float_movements = id]
        call == [shop_id |-> s.req.shop_id, provider_id |-> s.req.provider_id,
                 category |-> s.req.category, amount |-> amt,
                 operation |-> IF top THEN "top_up" ELSE "withdraw",
                 is_new_capital |-> row.is_new_capital]
    IN  Step(D2, [s EXCEPT !.req.id = id, !.ub = call, !.ret = "fm_return",
                           !.commits = @ + 1, !.pc = "ub_q_float"])

(***************************************************************************)
(* update_float_movement, delete_float_movement                            *)
(* (app/api/routes/float_movement.py).                                     *)
(***************************************************************************)
\* "Reverse previous effect" of update_float_movement: the arguments of the
\* first call of update_balances
UfmReverseCall(row) ==
    [shop_id |-> row.shop_id, provider_id |-> row.provider_id,
     category |-> row.category, amount |-> row.amount,
     operation |-> IF row.type = "top_up" THEN "withdraw" ELSE "top_up",
     is_new_capital |-> IF row.type = "top_up" THEN FALSE ELSE row.is_new_capital]

\* "Apply new effect" of update_float_movement
UfmApplyCall(row, new_amount) ==
    [shop_id |-> row.shop_id, provider_id |-> row.provider_id,
     category |-> row.category, amount |-> new_amount,
     operation |-> IF row.type = "top_up" THEN "top_up" ELSE "withdraw",
     is_new_capital |-> IF row.type = "top_up" THEN row.is_new_capital ELSE FALSE]

\* "Reverse effect before deletion" of delete_float_movement
DfmReverseCall(row) ==
    [shop_id |-> row.shop_id, provider_id |-> row.provider_id,
     category |-> row.category, amount |-> row.amount,
     operation |-> IF row.type = "top_up" THEN "withdraw" ELSE "top_up",
     is_new_capital |-> FALSE]

\* A handler that takes every key of the body that names a column.
UpdatedMovementFromBody(movement, body, t) ==
    [movement EXCEPT !.amount = BodyGetAmount(body, @),
                     !.shop_id = IF body.shop_id = "none" THEN @ ELSE body.shop_id,
                     !.provider_id = IF body.provider_id = "none" THEN @ ELSE body.provider_id,
                     !.category = IF body.category = "none" THEN @ ELSE body.category,
                     !.type = IF body.type = "none" THEN @ ELSE body.type,
                     !.is_new_capital = body.is_new_capital,
                     !.updated_at = t]

\* "Apply new values" of update_float_movement: amount (reference and notes
\* are not modelled) and updated_at
UpdatedMovement(movement, body, t) ==
    [movement EXCEPT !.amount = BodyGetAmount(body, @), !.updated_at = t]

\* "Apply new values": the movement, expired by the commit of
\* update_balances, is loaded again (ObjectDeletedError when its row is
\* gone); db.commit(); db.refresh(movement); then the second call
UfmCommit(D, s, t) ==
    LET id == s.req.id
    IN  IF id \notin DOMAIN D.float_movements THEN Raise(D, s)
        ELSE LET new_amount == BodyGetAmount(s.req, D.float_movements[id].amount)
                 D2 == [D EXCEPT !.float_movements[id] = UpdatedMovement(@, s.req, t)]
             IN  Step(D2, [s EXCEPT !.ub = UfmApplyCall(s.row, new_amount),
                                    !.ret = "fm_return", !.commits = @ + 1,
                                    !.pc = "ub_q_float"])

\* A delete that removes the float balance row along with the movement
DfmCommitDroppingBalance(D, s) ==
    LET k  == FloatKey(s.row.shop_id, s.row.provider_id, s.row.category)
        D2 == [D EXCEPT !.float_movements = Drop(@, s.req.id),
                        !.float_balances = Drop(@, k)]
    IN  Return(D2, [s EXCEPT !.commits = @ + 1], NoBalances)

\* db.delete(movement); db.commit()
DfmCommit(D, s) ==
    LET id == s.req.id
        D2 == [D EXCEPT !.float_movements = Drop(@, id)]
    IN  Return(D2, [s EXCEPT !.commits = @ + 1], NoBalances)

(***************************************************************************)
(* create_transaction (app/api/routes/shops.py).                           *)
(***************************************************************************)
\* A lookup of the float balance that leaves the category out
ReqFloatKeyOfProvider(s) == FloatKey(s.req.shop_id, s.req.provider_id, "mobile")

ReqFloatKey(s) == FloatKey(s.req.shop_id, s.req.provider_id, s.req.category)

CtQueryFloat(D, s) ==
    LET got == LoadFloat(D, ReqFloatKey(s))
    IN  IF got.state = "none"
        THEN Step(D, [s EXCEPT !.float_balance = Pending, !.pc = "ct_ins_float"])
        ELSE Step(D, [s EXCEPT !.float_balance = got, !.prev_float = got.balance,
                               !.pc = "ct_q_cash"])

\* db.add(float_balance_obj); db.commit(); db.refresh(float_balance_obj)
CtInsertFloat(D, s, t) ==
    LET k  == ReqFloatKey(s)
        D2 == [D EXCEPT !.float_balances = Put(@, k, [balance |-> 0, last_updated |-> t])]
    IN  IF FloatConflict(D, s.float_balance, k) THEN Raise(D, s)
        ELSE Step(D2, [s EXCEPT !.float_balance = LoadFloat(D2, k), !.prev_float = 0,
                                !.commits = @ + 1, !.pc = "ct_q_cash"])

CtQueryCash(D, s) ==
    LET got == LoadCash(D, s.req.shop_id)
    IN  IF got.state = "none"
        THEN Step(D, [s EXCEPT !.cash_balance = Pending, !.pc = "ct_ins_cash"])
        ELSE Step(D, [s EXCEPT !.cash_balance = got, !.prev_cash = got.balance,
                               !.pc = "ct_commit"])

\* db.add(cash_balance_obj); db.commit(); db.refresh(cash_balance_obj).
\* The commit expires float_balance_obj: its balance is loaded again when
\* the arithmetic reads it.
CtInsertCash(D, s, t) ==
    LET shop == s.req.shop_id
        D2 == [D EXCEPT !.cash_balances =
                   Put(@, shop, [balance |-> 0, opening_balance |-> 0, last_updated |-> t])]
    IN  IF CashConflict(D, s.cash_balance, shop) THEN Raise(D, s)
        ELSE Step(D2, [s EXCEPT !.cash_balance = LoadCash(D2, shop), !.prev_cash = 0,
                                !.commits = @ + 1, !.pc = "ct_reload_float"])

CtReloadFloat(D, s) ==
    Step(D, [s EXCEPT !.float_balance = LoadFloat(D, ReqFloatKey(s)), !.pc = "ct_commit"])

\* The effect of a transaction of amount a on (float, cash), given whether
\* its type was found in WITHDRAWAL_TYPES.
TxnFloatAlwaysDebit(balance, amount, is_withdrawal) == balance - amount
TxnFloat(balance, amount, is_withdrawal) ==
    IF is_withdrawal THEN balance + amount ELSE balance - amount
TxnCashNoCredit(balance, amount, is_withdrawal) ==
    IF is_withdrawal THEN balance - amount ELSE balance
TxnCashUntouched(balance, amount, is_withdrawal) == balance
TxnCash(balance, amount, is_withdrawal) ==
    IF is_withdrawal THEN balance - amount ELSE balance + amount

\* the arithmetic, the Transaction, db.commit(), the refreshes, the response
\* (prev_float and prev_cash are float(...) of the balances)
CtCommit(D, s, t) ==
    LET k    == ReqFloatKey(s)
        shop == s.req.shop_id
        id   == D.issued.transactions + 1
        amt  == BodyGetAmount(s.req, 0)
        txn_type == PyStr(s.req.type)
        w    == txn_type \in WITHDRAWAL_TYPES
        fnew == TxnFloat(s.float_balance.balance, amt, w)
        cnew == TxnCash(s.cash_balance.balance, amt, w)
        frow == [balance |-> Flush(s.float_balance, s.float_balance.balance, fnew,
                                   FloatOf(D, k)),
                 last_updated |-> t]
        \* cash_balance_obj.updated_at is no column: last_updated is not written
        crow == [D.cash_balances[shop] EXCEPT
                     !.balance = Flush(s.cash_balance, s.cash_balance.balance, cnew, @)]
        row  == [shop_id |-> shop, provider_id |-> s.req.provider_id,
                 category |-> s.req.category,
                 type |-> ColumnStore(txn_type), amount |-> amt,
                 recorded_by |-> s.req.user, transaction_date |-> t,
                 updated_at |-> t]
        D2   == [D EXCEPT !.float_balances = Put(@, k, frow),
                          !.cash_balances = Put(@, shop, crow),
                          !.transactions = Put(@, id, row),
                          !.issued.transactions = id]
    IN  Respond(D2, [s EXCEPT !.commits = @ + 1],
                BalanceUpdatesOf(PyFloat(s.prev_float), PyDecimal(frow.balance),
                                 PyFloat(s.prev_cash), PyDecimal(crow.balance)))

(***************************************************************************)
(* update_transaction, delete_transaction                                  *)
(* (app/api/routes/transactions.py).                                       *)
(***************************************************************************)
RowFloatKey(s) == FloatKey(s.row.shop_id, s.row.provider_id, s.row.category)

TxQueryFloat(D, s) ==
    Step(D, [s EXCEPT !.float_balance = LoadFloat(D, RowFloatKey(s)), !.pc = "tx_q_cash"])

\* A handler that commits the reversal on its own, before it changes the
\* transaction row.
TxQueryCashCommittingReversal(D, s) ==
    LET got  == LoadCash(D, s.row.shop_id)
        k    == RowFloatKey(s)
        sign == IF ColumnLoad(s.row.type) \in WITHDRAWAL_TYPES THEN 0 - 1 ELSE 1
    IN  IF s.float_balance.state = "none" \/ got.state = "none" THEN Raise(D, s)
        ELSE Step([D EXCEPT !.float_balances[k].balance = @ + sign * s.row.amount,
                            !.cash_balances[s.row.shop_id].balance = @ - sign * s.row.amount],
                  [s EXCEPT !.cash_balance = got,
                            !.prev_float = s.float_balance.balance,
                            !.prev_cash = got.balance,
                            !.commits = @ + 1,
                            !.pc = IF s.req.op = "update_transaction"
                                   THEN "ut_commit" ELSE "dt_commit"])

\* cash_balance = ...first(); the handler then reads .balance of both
\* objects: AttributeError when a query found no row
TxQueryCash(D, s) ==
    LET got == LoadCash(D, s.row.shop_id)
    IN  IF s.float_balance.state = "none" \/ got.state = "none" THEN Raise(D, s)
        ELSE Step(D, [s EXCEPT !.cash_balance = got,
                               !.prev_float = s.float_balance.balance,
                               !.prev_cash = got.balance,
                               !.pc = IF s.req.op = "update_transaction"
                                      THEN "ut_commit" ELSE "dt_commit"])

\* "Reverse previous transaction effect" (update) and "Reverse balances"
\* (delete): txn_type is the loaded member of TransactionType
TxReverseFloat(balance, row) ==
    IF ColumnLoad(row.type) \in WITHDRAWAL_TYPES
    THEN balance - row.amount ELSE balance + row.amount
TxReverseCash(balance, row) ==
    IF ColumnLoad(row.type) \in WITHDRAWAL_TYPES
    THEN balance + row.amount ELSE balance - row.amount

\* "Apply new values" of update_transaction
TxApplyFloat(balance, row, new_amount) ==
    TxnFloat(balance, new_amount, ColumnLoad(row.type) \in WITHDRAWAL_TYPES)
TxApplyCash(balance, row, new_amount) ==
    TxnCash(balance, new_amount, ColumnLoad(row.type) \in WITHDRAWAL_TYPES)

\* The flush of a handler that changed the balance attributes only.
TxWriteBalances(D, s, fnew, cnew) ==
    LET k == RowFloatKey(s)
        shop == s.row.shop_id
    IN  [D EXCEPT !.float_balances[k].balance =
                      Flush(s.float_balance, s.float_balance.balance, fnew, @),
                  !.cash_balances[shop].balance =
                      Flush(s.cash_balance, s.cash_balance.balance, cnew, @)]

\* A handler that takes every key of the body that names a column.
UpdatedTransactionFromBody(transaction, body, t) ==
    [transaction EXCEPT !.amount = BodyGetAmount(body, @),
                        !.shop_id = IF body.shop_id = "none" THEN @ ELSE body.shop_id,
                        !.provider_id = IF body.provider_id = "none" THEN @ ELSE body.provider_id,
                        !.category = IF body.category = "none" THEN @ ELSE body.category,
                        !.type = IF body.type = "none" THEN @ ELSE body.type,
                        !.updated_at = t]

\* "Update transaction fields" of update_transaction: amount (commission,
\* reference, customer_identifier and notes are not modelled) and updated_at
UpdatedTransaction(transaction, body, t) ==
    [transaction EXCEPT !.amount = BodyGetAmount(body, @), !.updated_at = t]

\* db.commit() of update_transaction: the UPDATE of a transaction whose row
\* is gone matches no row (StaleDataError)
UtCommit(D, s, t) ==
    LET id   == s.req.id
        new_amount == BodyGetAmount(s.req, s.row.amount)
        fnew == TxApplyFloat(TxReverseFloat(s.float_balance.balance, s.row), s.row, new_amount)
        cnew == TxApplyCash(TxReverseCash(s.cash_balance.balance, s.row), s.row, new_amount)
        D1   == TxWriteBalances(D, s, fnew, cnew)
    IN  IF id \notin DOMAIN D.transactions THEN Raise(D, s)
        ELSE LET D2 == [D1 EXCEPT !.transactions[id] = UpdatedTransaction(@, s.req, t)]
             IN  Respond(D2, [s EXCEPT !.commits = @ + 1],
                         BalanceUpdatesOf(PyFloat(s.prev_float),
                                          PyDecimal(FloatOf(D2, RowFloatKey(s))),
                                          PyFloat(s.prev_cash),
                                          PyDecimal(CashOf(D2, s.row.shop_id))))

\* A delete that removes the cash balance row along with the transaction
DtCommitDroppingBalance(D, s) ==
    LET D2 == [D EXCEPT !.transactions = Drop(@, s.req.id),
                        !.cash_balances = Drop(@, s.row.shop_id)]
    IN  Return(D2, [s EXCEPT !.commits = @ + 1], NoBalances)

\* db.delete(transaction); db.commit(): a DELETE that matches no row is a
\* warning, the commit goes through
DtCommit(D, s) ==
    LET fnew == TxReverseFloat(s.float_balance.balance, s.row)
        cnew == TxReverseCash(s.cash_balance.balance, s.row)
        D1   == TxWriteBalances(D, s, fnew, cnew)
        D2   == [D1 EXCEPT !.transactions = Drop(@, s.req.id)]
    IN  Return(D2, [s EXCEPT !.commits = @ + 1], NoBalances)

(***************************************************************************)
(* set_cash_opening_balance, adjust_cash_balance (app/api/routes/shops.py).*)
(***************************************************************************)
SoQueryCash(D, s) ==
    LET got == LoadCash(D, s.req.shop_id)
    IN  Step(D, [s EXCEPT !.cash_balance = IF got.state = "none" THEN Pending ELSE got,
                          !.pc = "so_commit"])

SoCommitOpeningOnly(D, s, t) ==
    LET shop == s.req.shop_id
        v    == BodyGetAmount(s.req, 0)
        obj  == s.cash_balance
        crow == [balance |-> CashOf(D, shop),
                 opening_balance |-> v,
                 last_updated |-> t]
        D2   == [D EXCEPT !.cash_balances = Put(@, shop, crow)]
    IN  Return(D2, [s EXCEPT !.commits = @ + 1], NoBalances)

SoCommit(D, s, t) ==
    LET shop == s.req.shop_id
        v    == BodyGetAmount(s.req, 0)
        obj  == s.cash_balance
        crow == [balance |-> Flush(obj, obj.balance, v, CashOf(D, shop)),
                 opening_balance |->
                     Flush(obj, obj.opening_balance, v,
                           IF shop \in DOMAIN D.cash_balances
                           THEN D.cash_balances[shop].opening_balance ELSE 0),
                 last_updated |-> t]
        D2   == [D EXCEPT !.cash_balances = Put(@, shop, crow)]
    IN  IF CashConflict(D, obj, shop) THEN Raise(D, s)
        ELSE Return(D2, [s EXCEPT !.commits = @ + 1], NoBalances)

\* cash = CashBalance(shop_id=shop_id) has balance None until it is
\* flushed: float(cash.balance) raises TypeError.  The response carries
\* previous_balance, current_balance and change of the cash balance.
AcQueryCash(D, s) ==
    LET got == LoadCash(D, s.req.shop_id)
    IN  IF got.state = "none" THEN Raise(D, s)
        ELSE Step(D, [s EXCEPT !.cash_balance = got, !.prev_cash = got.balance,
                               !.pc = "ac_commit"])

AcCommit(D, s, t) ==
    LET shop == s.req.shop_id
        amt  == BodyGetAmount(s.req, 0)
        cnew == IF s.req.adjustment_type = "add"
                THEN s.cash_balance.balance + amt ELSE s.cash_balance.balance - amt
        crow == [D.cash_balances[shop] EXCEPT
                     !.balance = Flush(s.cash_balance, s.cash_balance.balance, cnew, @),
                     !.last_updated = t]
        D2   == [D EXCEPT !.cash_balances[shop] = crow]
    IN  Respond(D2, [s EXCEPT !.commits = @ + 1],
                BalanceUpdatesOf(PyDecimal(0), PyDecimal(0),
                                 PyFloat(s.prev_cash), PyDecimal(crow.balance)))

(***************************************************************************)
(* Access guard and the first queries of each handler.                     *)
(***************************************************************************)
\* verify_shop_access: the shop exists and the user is its owner or one of
\* its cashiers
verify_shop_access(shop_id, user) ==
    /\ shop_id \in Shops
    /\ \/ ShopOwner[shop_id] = user
       \/ <<user, shop_id>> \in Cashiers

\* An access check that lets the cashiers of the shop through as well
IsShopMember(shop_id, user) == verify_shop_access(shop_id, user)

\* "Only shop owner can update/delete this transaction"
IsShopOwner(shop_id, user) == shop_id \in Shops /\ ShopOwner[shop_id] = user

\* The request passes the lookups and the access check that open its
\* handler (no 403, no 404).
Accepted(D, req) ==
    CASE req.op = "create_transaction" ->
            /\ verify_shop_access(req.shop_id, req.user)
            /\ req.provider_id \in Providers
            /\ ProviderShop[req.provider_id] = req.shop_id
      [] req.op \in {"update_transaction", "delete_transaction"} ->
            /\ req.id \in DOMAIN D.transactions
            /\ IsShopOwner(D.transactions[req.id].shop_id, req.user)
      [] req.op \in {"update_float_movement", "delete_float_movement"} ->
            /\ req.id \in DOMAIN D.float_movements
            /\ verify_shop_access(D.float_movements[req.id].shop_id, req.user)
      [] req.op \in {"create_float_topup", "create_float_withdraw",
                     "set_cash_opening_balance", "adjust_cash_balance"} ->
            verify_shop_access(req.shop_id, req.user)
      [] OTHER -> FALSE

\* HTTPExceptionOfHttpClient: every module imports the class of http.client.
\* raise HTTPException(status_code=..., detail=...).  The routes import the
\* class of fastapi, whose status reaches the client.  helpers.py imports
\* the class of http.client, an Exception that takes no keyword argument:
\* the raise statement raises TypeError, which the client sees as a 500.
HTTPExceptionOfHttpClient(module, status_code) == 500
HTTPExceptionOf(module, status_code) ==
    IF module = "fastapi" THEN status_code ELSE 500

\* The status raised by verify_shop_access of helpers.py, 200 when it
\* returns the shop.
VerifyShopAccessStatus(shop_id, user) ==
    IF shop_id \notin Shops THEN HTTPExceptionOf("http.client", 404)
    ELSE IF ~verify_shop_access(shop_id, user) THEN HTTPExceptionOf("http.client", 403)
    ELSE 200

\* The status with which the lookups and the access check that open the
\* handler end the request, 200 when they let it through.
Preamble(D, req) ==
    CASE req.op = "create_transaction" ->
            IF ~verify_shop_access(req.shop_id, req.user)
            THEN HTTPExceptionOf("fastapi", 403)
            ELSE IF ~(req.provider_id \in Providers /\ ProviderShop[req.provider_id] = req.shop_id)
            THEN HTTPExceptionOf("fastapi", 404)
            ELSE 200
      [] req.op \in {"update_transaction", "delete_transaction"} ->
            IF req.id \notin DOMAIN D.transactions
            THEN HTTPExceptionOf("fastapi", 404)
            ELSE IF ~IsShopOwner(D.transactions[req.id].shop_id, req.user)
            THEN HTTPExceptionOf("fastapi", 403)
            ELSE 200
      [] req.op \in {"update_float_movement", "delete_float_movement"} ->
            IF req.id \notin DOMAIN D.float_movements
            THEN HTTPExceptionOf("fastapi", 404)
            ELSE VerifyShopAccessStatus(D.float_movements[req.id].shop_id, req.user)
      [] req.op = "create_float_topup" ->
            IF req.shop_id \notin Shops
            THEN HTTPExceptionOf("fastapi", 404)
            ELSE VerifyShopAccessStatus(req.shop_id, req.user)
      [] req.op \in {"create_float_withdraw", "set_cash_opening_balance",
                     "adjust_cash_balance"} ->
            VerifyShopAccessStatus(req.shop_id, req.user)

LoadTransaction(D, id) ==
    LET r == D.transactions[id]
    IN  [shop_id |-> r.shop_id, provider_id |-> r.provider_id, category |-> r.category,
         type |-> r.type, amount |-> r.amount, is_new_capital |-> FALSE]

LoadMovement(D, id) ==
    LET r == D.float_movements[id]
    IN  [shop_id |-> r.shop_id, provider_id |-> r.provider_id, category |-> r.category,
         type |-> r.type, amount |-> r.amount, is_new_capital |-> r.is_new_capital]

\* The session of an accepted request, at its first statement that reads or
\* writes a balance or a ledger row.
StartSession(D, req) ==
    LET s0 == [Idle EXCEPT !.req = req]
    IN  CASE req.op = "create_transaction" -> [s0 EXCEPT !.pc = "ct_q_float"]
          [] req.op \in {"update_transaction", "delete_transaction"} ->
                [s0 EXCEPT !.row = LoadTransaction(D, req.id), !.pc = "tx_q_float"]
          [] req.op \in {"create_float_topup", "create_float_withdraw"} ->
                [s0 EXCEPT !.pc = "fm_insert"]
          [] req.op = "update_float_movement" ->
                [s0 EXCEPT !.row = LoadMovement(D, req.id),
                           !.ub = UfmReverseCall(LoadMovement(D, req.id)),
                           !.ret = "ufm_commit", !.pc = "ub_q_float"]
          [] req.op = "delete_float_movement" ->
                [s0 EXCEPT !.row = LoadMovement(D, req.id),
                           !.ub = DfmReverseCall(LoadMovement(D, req.id)),
                           !.ret = "dfm_commit", !.pc = "ub_q_float"]
          [] req.op = "set_cash_opening_balance" -> [s0 EXCEPT !.pc = "so_q_cash"]
          [] req.op = "adjust_cash_balance" -> [s0 EXCEPT !.pc = "ac_q_cash"]

\* One SQL round trip of session s against the committed database D at
\* time t.
StepSession(D, s, t) ==
    CASE s.pc = "ub_q_float"      -> UbQueryFloat(D, s)
      [] s.pc = "ub_q_cash"       -> UbQueryCash(D, s)
      [] s.pc = "ub_commit"       -> UbCommit(D, s, t)
      [] s.pc = "fm_insert"       -> FmInsert(D, s, t)
      [] s.pc = "ufm_commit"      -> UfmCommit(D, s, t)
      [] s.pc = "dfm_commit"      -> DfmCommit(D, s)
      [] s.pc = "ct_q_float"      -> CtQueryFloat(D, s)
      [] s.pc = "ct_ins_float"    -> CtInsertFloat(D, s, t)
      [] s.pc = "ct_q_cash"       -> CtQueryCash(D, s)
      [] s.pc = "ct_ins_cash"     -> CtInsertCash(D, s, t)
      [] s.pc = "ct_reload_float" -> CtReloadFloat(D, s)
      [] s.pc = "ct_commit"       -> CtCommit(D, s, t)
      [] s.pc = "tx_q_float"      -> TxQueryFloat(D, s)
      [] s.pc = "tx_q_cash"       -> TxQueryCash(D, s)
      [] s.pc = "ut_commit"       -> UtCommit(D, s, t)
      [] s.pc = "dt_commit"       -> DtCommit(D, s)
      [] s.pc = "so_q_cash"       -> SoQueryCash(D, s)
      [] s.pc = "so_commit"       -> SoCommit(D, s, t)
      [] s.pc = "ac_q_cash"       -> AcQueryCash(D, s)
      [] s.pc = "ac_commit"       -> AcCommit(D, s, t)

Ended(s) == s.pc \in {"done", "failed"}

\* The session run to its end with no other session in between.
RECURSIVE RunSession(_, _, _)
RunSession(D, s, t) ==
    IF Ended(s) THEN Step(D, s)
    ELSE LET r == StepSession(D, s, t) IN RunSession(r.db, r.s, t)

\* A whole handler, alone.
Handle(D, req, t) == RunSession(D, StartSession(D, req), t)

\* A request from its first statement to its response: the exception of the
\* lookups and the access check, or the handler.
Serve(D, req, t) ==
    IF Preamble(D, req) = 200 THEN Handle(D, req, t)
    ELSE Step(D, [Idle EXCEPT !.req = req, !.pc = "failed",
                              !.result = [status |-> Preamble(D, req), op |-> req.op,
                                          id |-> req.id,
                                          balance_updates |-> NoBalances,
                                          commits |-> 0]])

\* update_balances called on its own.
update_balances(D, shop_id, provider_id, category, amount, operation, is_new_capital, t) ==
    RunSession(D, [Idle EXCEPT !.pc = "ub_q_float", !.ret = "return",
                               !.ub = [shop_id |-> shop_id, provider_id |-> provider_id,
                                       category |-> category, amount |-> amount,
                                       operation |-> operation,
                                       is_new_capital |-> is_new_capital]], t)

(***************************************************************************)
(* Requests.  A request addresses a shop or a shop id that does not exist, *)
(* a ledger row or an id that was never issued.  The float movement        *)
(* requests name a provider of the shop they address, the transaction      *)
(* requests a type of RequestedTypes: one type for each row of the         *)
(* classification table of get_transaction_types.                          *)
(***************************************************************************)
\* The shops and one id of no shop
RequestedShops == Shops \cup {"s0"}

\* The ids of the rows and one id of no row
RequestedIds(rows, issued_ids) == DOMAIN rows \cup {issued_ids + 1}

RequestedTypes == {"deposit", "withdrawal", "account_to_wallet", "wallet_to_account"}

Request(op, user) == [NoRequest EXCEPT !.op = op, !.user = user]

\* The checks that open a handler read the path, the user and the provider
\* of a request: a request they turn away is sent with one body, a request
\* they let through with every body.
LetThrough(req) ==
    /\ verify_shop_access(req.shop_id, req.user)
    /\ req.op = "create_transaction" => ProviderShop[req.provider_id] = req.shop_id

OneBody(req) ==
    /\ req.category \in {"none", "mobile"}
    /\ req.type \in {"none", "deposit"}
    /\ req.amount = {1}
    /\ ~req.is_new_capital
    /\ req.adjustment_type \in {"none", "add"}

Sent(S) == { req \in S : LetThrough(req) \/ OneBody(req) }

\* create_transaction requests with a type of Types
CreateTransactionRequestsOf(Types) ==
  Sent(
    { [Request("create_transaction", u) EXCEPT
          !.shop_id = sh, !.provider_id = p, !.category = c, !.type = ty, !.amount = {a}] :
      u \in Users, sh \in RequestedShops, p \in Providers, c \in Category,
      ty \in Types, a \in Amounts })

CreateTransactionRequests == CreateTransactionRequestsOf(RequestedTypes)

OptionalAmounts == {{}} \cup {{a} : a \in Amounts}

\* The other keys of the body of an update: none, or a value for every key
\* that names an identity column of the row.
UpdateBodies(type) ==
    { [shop_id |-> "none", provider_id |-> "none", category |-> "none",
       type |-> "none", is_new_capital |-> FALSE],
      [shop_id |-> "s2", provider_id |-> "p2", category |-> "bank",
       type |-> type, is_new_capital |-> TRUE] }

WithBody(req, b) ==
    [req EXCEPT !.shop_id = b.shop_id, !.provider_id = b.provider_id,
                !.category = b.category, !.type = b.type,
                !.is_new_capital = b.is_new_capital]

UpdateTransactionRequests(D) ==
    { WithBody([Request("update_transaction", u) EXCEPT !.id = id, !.amount = am], b) :
      u \in Users, id \in RequestedIds(D.transactions, D.issued.transactions),
      am \in OptionalAmounts, b \in UpdateBodies("withdrawal") }

DeleteTransactionRequests(D) ==
    { [Request("delete_transaction", u) EXCEPT !.id = id] :
      u \in Users, id \in RequestedIds(D.transactions, D.issued.transactions) }

\* The shops a float movement request naming provider p addresses
ShopsNaming(p) == {ProviderShop[p], "s0"}

CreateFloatTopupRequests ==
  Sent(
    UNION { { [Request("create_float_topup", u) EXCEPT
                 !.shop_id = sh, !.provider_id = p, !.category = c,
                 !.amount = {a}, !.is_new_capital = cap] :
              u \in Users, sh \in ShopsNaming(p), c \in Category, a \in Amounts,
              cap \in BOOLEAN } : p \in Providers })

CreateFloatWithdrawRequests ==
  Sent(
    UNION { { [Request("create_float_withdraw", u) EXCEPT
                 !.shop_id = sh, !.provider_id = p, !.category = c,
                 !.amount = {a}] :
              u \in Users, sh \in ShopsNaming(p), c \in Category, a \in Amounts } :
            p \in Providers })

UpdateFloatMovementRequests(D) ==
    { WithBody([Request("update_float_movement", u) EXCEPT !.id = id, !.amount = am], b) :
      u \in Users, id \in RequestedIds(D.float_movements, D.issued.float_movements),
      am \in OptionalAmounts, b \in UpdateBodies("withdraw") }

DeleteFloatMovementRequests(D) ==
    { [Request("delete_float_movement", u) EXCEPT !.id = id] :
      u \in Users, id \in RequestedIds(D.float_movements, D.issued.float_movements) }

SetCashOpeningBalanceRequests ==
  Sent(
    { [Request("set_cash_opening_balance", u) EXCEPT
          !.shop_id = sh, !.amount = {v}] :
      u \in Users, sh \in RequestedShops, v \in {0} \cup Amounts })

AdjustCashBalanceRequests ==
  Sent(
    { [Request("adjust_cash_balance", u) EXCEPT
          !.shop_id = sh, !.amount = {a}, !.adjustment_type = ty] :
      u \in Users, sh \in RequestedShops, a \in Amounts, ty \in {"add", "subtract"} })

Requests(D) ==
    CreateTransactionRequests \cup UpdateTransactionRequests(D)
      \cup DeleteTransactionRequests(D) \cup CreateFloatTopupRequests
      \cup CreateFloatWithdrawRequests \cup UpdateFloatMovementRequests(D)
      \cup DeleteFloatMovementRequests(D) \cup SetCashOpeningBalanceRequests
      \cup AdjustCashBalanceRequests

(***************************************************************************)
(* The auth routes (app/api/routes/auth.py, app/api/routes/cashiers.py).   *)
(* The clock of these routes is now: one unit per request.                 *)
(***************************************************************************)
\* User.role
Role(u) == IF \E sh \in Shops : <<u, sh>> \in Cashiers THEN "cashier" ELSE "superadmin"

\* Cashier rows by their id; all of them have is_active = True.
CashierUser == [k \in {"k1"} |-> "u3"]

\* Lifetimes, in requests.
REFRESH_TOKEN_EXPIRE_DAYS == 3
RESET_PASSWORD_CODE_EXPIRE_MINUTES == 3

\* The passwords of a run with what validate_password_strength reads of
\* them: the length and the classes of characters present.
Passwords ==
    ("Start#2024" :> [len |-> 10, classes |-> {"upper", "lower", "digit", "special"}])
    @@ ("Fresh#2025" :> [len |-> 10, classes |-> {"upper", "lower", "digit", "special"}])
    @@ ("Other#2026" :> [len |-> 10, classes |-> {"upper", "lower", "digit", "special"}])
    @@ ("fresh2025" :> [len |-> 9, classes |-> {"lower", "digit"}])

validate_password_strength(password) ==
    /\ Passwords[password].len >= 8
    /\ {"upper", "lower", "digit", "special"} \subseteq Passwords[password].classes

\* hashlib.sha256(password.encode()).hexdigest(): one digest per text.
hash_password(password) == <<"sha256", password>>

\* generate_reset_code draws the code at random: the codes it can return.
ResetCodes == {"AB9XQ2", "K7MPLR"}

\* The committed auth tables as one value.
ADB == [users |-> users, refresh_tokens |-> refresh_tokens,
        password_reset_tokens |-> password_reset_tokens]

\* shared_session: get_current_user takes its Session from Depends(get_db)
\* of db.get_db (app/utils/auth.py), the routes from that of app.db.get_db.
\* When the two names load two modules, the two functions are two
\* dependencies and current_user belongs to a Session of its own.
NoAuthRequest ==
    [op |-> "none", user |-> "none", identifier |-> "none", password |-> "none",
     new_password |-> "none", token |-> <<"none", 0>>, cashier_id |-> "none",
     code |-> "none", first |-> "asc", mail_sent |-> TRUE,
     shared_session |-> TRUE]

AuthRequest(op) == [NoAuthRequest EXCEPT !.op = op]

\* A response with the request it answers and the rows its bulk DELETE
\* removed.
NoAuthResponse ==
    [status |-> 0, op |-> "none", access_token |-> FALSE,
     refresh_token |-> <<"none", 0>>, commits |-> 0, req |-> NoAuthRequest,
     doomed |-> {}]

\* loaded holds the columns of the row the session has loaded, target the
\* user whose password is changed, doomed the RefreshToken rows its bulk
\* DELETE has removed inside the open transaction.
AuthIdle ==
    [pc |-> "idle", req |-> NoAuthRequest, client |-> "none", target |-> "none",
     loaded |-> <<"none">>, row |-> 0, doomed |-> {}, commits |-> 0,
     result |-> NoAuthResponse]

AuthStepTo(A, s) == [db |-> A, s |-> s]

\* The handler returns a response of the given status.
Reply(A, s, status) ==
    AuthStepTo(A, [s EXCEPT !.pc = "done",
                            !.result = [NoAuthResponse EXCEPT
                                           !.status = status, !.op = s.req.op,
                                           !.commits = s.commits, !.req = s.req,
                                           !.doomed = s.doomed]])

\* The password reset tokens a query with used_at IS NULL and
\* expires_at > utcnow() can return.
ActiveResetTokens(A, t) ==
    { i \in DOMAIN A.password_reset_tokens :
        /\ A.password_reset_tokens[i].used_at = 0
        /\ A.password_reset_tokens[i].expires_at > t }

\* .first() of a query without ORDER BY: the database returns the rows in
\* one order or the other.
First(ids, order) ==
    IF order = "asc" THEN CHOOSE i \in ids : \A j \in ids : i <= j
    ELSE CHOOSE i \in ids : \A j \in ids : i >= j

\* login: the user by identifier, the password check, the Cashier row of a
\* cashier, then create_refresh_token_entry.
LgQueryUser(A, s) ==
    LET u == s.req.identifier
    IN  IF u \notin Users \/ A.users[u].hashed_password # hash_password(s.req.password)
        THEN Reply(A, s, 401)
        ELSE AuthStepTo(A, [s EXCEPT !.target = u,
                                     !.pc = IF Role(u) = "cashier" THEN "lg_cashier"
                                            ELSE "lg_token"])

LgQueryCashier(A, s) == AuthStepTo(A, [s EXCEPT !.pc = "lg_token"])

\* generate_refresh_token is a uuid4: no two calls return the same token.
create_refresh_token_entry(A, s, t) ==
    LET token == <<s.client, t>>
        row   == [user_id |-> s.target, expires_at |-> t + REFRESH_TOKEN_EXPIRE_DAYS,
                  revoked |-> FALSE]
    IN  [db |-> [A EXCEPT !.refresh_tokens = Put(@, token, row)], token |-> token]

LgToken(A, s, t) ==
    LET made == create_refresh_token_entry(A, s, t)
    IN  AuthStepTo(made.db,
                   [s EXCEPT !.pc = "done", !.commits = @ + 1,
                             !.result = [status |-> 200, op |-> s.req.op,
                                         access_token |-> TRUE,
                                         refresh_token |-> made.token,
                                         commits |-> s.commits + 1,
                                         req |-> s.req, doomed |-> {}]])

\* refresh_token
RfQueryTokenAnyRow(A, s, t) ==
    LET k == s.req.token
    IN  IF k \in DOMAIN A.refresh_tokens /\ A.refresh_tokens[k].expires_at > t
        THEN AuthStepTo(A, [s EXCEPT !.target = A.refresh_tokens[k].user_id,
                                     !.pc = "rf_user"])
        ELSE Reply(A, s, 401)

RfQueryToken(A, s, t) ==
    LET k == s.req.token
    IN  IF /\ k \in DOMAIN A.refresh_tokens
           /\ ~A.refresh_tokens[k].revoked
           /\ A.refresh_tokens[k].expires_at > t
        THEN AuthStepTo(A, [s EXCEPT !.target = A.refresh_tokens[k].user_id,
                                     !.pc = "rf_user"])
        ELSE Reply(A, s, 401)

RfQueryUser(A, s) ==
    AuthStepTo(A, [s EXCEPT !.pc = "done",
                            !.result = [NoAuthResponse EXCEPT
                                           !.status = 200, !.op = s.req.op,
                                           !.access_token = TRUE, !.req = s.req]])

\* logout
LoQueryToken(A, s) ==
    LET k == s.req.token
    IN  IF k \in DOMAIN A.refresh_tokens
        THEN AuthStepTo(A, [s EXCEPT !.loaded = <<A.refresh_tokens[k].revoked>>,
                                     !.pc = "lo_commit"])
        ELSE Reply(A, s, 200)

\* The flush writes revoked when it differs from the loaded value; the
\* UPDATE of a row that is gone raises StaleDataError.
LoCommit(A, s) ==
    LET k == s.req.token
    IN  IF s.loaded = <<TRUE>> THEN Reply(A, s, 200)
        ELSE IF k \notin DOMAIN A.refresh_tokens THEN Reply(A, s, 500)
        ELSE Reply([A EXCEPT !.refresh_tokens[k].revoked = TRUE],
                   [s EXCEPT !.commits = @ + 1], 200)

\* change_password: get_current_user loads the user, then the checks on
\* the loaded row.
CpQueryUser(A, s) ==
    LET u      == s.req.user
        hashed == A.users[u].hashed_password
    IN  IF hashed # hash_password(s.req.password) THEN Reply(A, s, 401)
        ELSE IF ~validate_password_strength(s.req.new_password) THEN Reply(A, s, 400)
        ELSE IF hash_password(s.req.new_password) = hashed THEN Reply(A, s, 400)
        ELSE AuthStepTo(A, [s EXCEPT !.target = u, !.loaded = <<hashed>>,
                                     !.pc = "pw_delete"])

\* reset_cashier_password
RcQueryUser(A, s) ==
    IF Role(s.req.user) # "superadmin" THEN Reply(A, s, 403)
    ELSE IF ~validate_password_strength(s.req.new_password) THEN Reply(A, s, 400)
    ELSE AuthStepTo(A, [s EXCEPT !.pc = "rc_cashier"])

RcQueryCashier(A, s) ==
    IF s.req.cashier_id \notin DOMAIN CashierUser THEN Reply(A, s, 404)
    ELSE AuthStepTo(A, [s EXCEPT !.target = CashierUser[s.req.cashier_id],
                                 !.pc = "rc_cashier_user"])

RcQueryCashierUser(A, s) ==
    IF Role(s.target) # "cashier" THEN Reply(A, s, 400)
    ELSE AuthStepTo(A, [s EXCEPT !.loaded = <<A.users[s.target].hashed_password>>,
                                 !.pc = "pw_delete"])

\* db.query(RefreshToken).filter(RefreshToken.user_id == ...).delete():
\* the DELETE runs at once, inside the transaction of the session.
PwDeleteTokens(A, s) ==
    AuthStepTo(A, [s EXCEPT !.doomed = { k \in DOMAIN A.refresh_tokens :
                                           A.refresh_tokens[k].user_id = s.target },
                            !.pc = "pw_commit"])

\* db.commit(): the new hash and the DELETE become visible together.
PwCommitKeepingTokens(A, s, t) ==
    LET A2 == [A EXCEPT !.users[s.target] =
                            [hashed_password |-> hash_password(s.req.new_password),
                             updated_at |-> t]]
    IN  Reply(A2, [s EXCEPT !.commits = @ + 1], 200)

\* change_password assigns to current_user: the commit of db writes the
\* new hash when current_user is an object of db, and only the DELETE when
\* it is an object of the Session of get_current_user, which is closed
\* without a commit.
PwCommit(A, s, t) ==
    LET written == s.req.op = "reset_cashier_password" \/ s.req.shared_session
        A2 == [A EXCEPT !.users[s.target] =
                            IF written
                            THEN [hashed_password |-> hash_password(s.req.new_password),
                                  updated_at |-> t]
                            ELSE @,
                        !.refresh_tokens =
                            [k \in DOMAIN @ \ s.doomed |-> @[k]]]
    IN  Reply(A2, [s EXCEPT !.commits = @ + 1], 200)

\* forgot_password
FpQueryUser(A, s) ==
    LET u == s.req.identifier
    IN  IF u \notin Users THEN Reply(A, s, 404)
        ELSE IF Role(u) = "cashier" THEN Reply(A, s, 403)
        ELSE AuthStepTo(A, [s EXCEPT !.target = u, !.pc = "fp_token"])

FpQueryToken(A, s, t) ==
    IF \E i \in ActiveResetTokens(A, t) :
           A.password_reset_tokens[i].user_id = s.target
    THEN Reply(A, s, 429)
    ELSE AuthStepTo(A, [s EXCEPT !.pc = "fp_commit"])

\* The token is committed before the mail is sent: a failure of
\* send_verification_email is answered with 500.
FpCommit(A, s, t) ==
    LET row == [user_id |-> s.target,
                reset_code_hash |-> hash_password(s.req.code),
                expires_at |-> t + RESET_PASSWORD_CODE_EXPIRE_MINUTES,
                used_at |-> 0]
        A2  == [A EXCEPT !.password_reset_tokens = Append(@, row)]
    IN  Reply(A2, [s EXCEPT !.commits = @ + 1],
              IF s.req.mail_sent THEN 200 ELSE 500)

\* The rows a query by reset code returns.
MatchingResetTokens(A, code, t) ==
    { i \in ActiveResetTokens(A, t) :
        A.password_reset_tokens[i].reset_code_hash = hash_password(code) }

\* verify_reset_token
VrQueryToken(A, s, t) ==
    IF MatchingResetTokens(A, s.req.code, t) = {} THEN Reply(A, s, 400)
    ELSE Reply(A, s, 200)

\* reset_password
RpQueryToken(A, s, t) ==
    LET found == MatchingResetTokens(A, s.req.code, t)
    IN  IF ~validate_password_strength(s.req.new_password) THEN Reply(A, s, 400)
        ELSE IF found = {} THEN Reply(A, s, 400)
        ELSE LET i == First(found, s.req.first)
             IN  AuthStepTo(A, [s EXCEPT !.row = i,
                                         !.target = A.password_reset_tokens[i].user_id,
                                         !.pc = "rp_user"])

RpQueryUser(A, s) ==
    AuthStepTo(A, [s EXCEPT !.loaded = <<A.users[s.target].hashed_password>>,
                            !.pc = "rp_password"])

\* user.hashed_password = hash_password(new_password); db.commit()
RpCommitPassword(A, s) ==
    LET hashed == hash_password(s.req.new_password)
        A2 == IF <<hashed>> = s.loaded THEN A
              ELSE [A EXCEPT !.users[s.target].hashed_password = hashed]
    IN  AuthStepTo(A2, [s EXCEPT !.commits = @ + 1, !.pc = "rp_used"])

\* token_entry.used_at = datetime.utcnow(); db.commit()
RpCommitUsed(A, s, t) ==
    AuthStepTo([A EXCEPT !.password_reset_tokens[s.row].used_at = t],
               [s EXCEPT !.commits = @ + 1, !.pc = "rp_history"])

\* The PasswordResetHistory row, which no route reads, and the response.
RpCommitHistory(A, s) == Reply(A, [s EXCEPT !.commits = @ + 1], 200)

StartAuth(c, req) ==
    [AuthIdle EXCEPT
        !.req = req, !.client = c,
        !.pc = CASE req.op = "login" -> "lg_user"
                 [] req.op = "refresh_token" -> "rf_token"
                 [] req.op = "logout" -> "lo_token"
                 [] req.op = "change_password" -> "cp_user"
                 [] req.op = "reset_cashier_password" -> "rc_user"
                 [] req.op = "forgot_password" -> "fp_user"
                 [] req.op = "verify_reset_token" -> "vr_token"
                 [] req.op = "reset_password" -> "rp_token"]

\* One SQL round trip of an auth request at time t.
StepAuth(A, s, t) ==
    CASE s.pc = "lg_user"         -> LgQueryUser(A, s)
      [] s.pc = "lg_cashier"      -> LgQueryCashier(A, s)
      [] s.pc = "lg_token"        -> LgToken(A, s, t)
      [] s.pc = "rf_token"        -> RfQueryToken(A, s, t)
      [] s.pc = "rf_user"         -> RfQueryUser(A, s)
      [] s.pc = "lo_token"        -> LoQueryToken(A, s)
      [] s.pc = "lo_commit"       -> LoCommit(A, s)
      [] s.pc = "cp_user"         -> CpQueryUser(A, s)
      [] s.pc = "rc_user"         -> RcQueryUser(A, s)
      [] s.pc = "rc_cashier"      -> RcQueryCashier(A, s)
      [] s.pc = "rc_cashier_user" -> RcQueryCashierUser(A, s)
      [] s.pc = "pw_delete"       -> PwDeleteTokens(A, s)
      [] s.pc = "pw_commit"       -> PwCommit(A, s, t)
      [] s.pc = "fp_user"         -> FpQueryUser(A, s)
      [] s.pc = "fp_token"        -> FpQueryToken(A, s, t)
      [] s.pc = "fp_commit"       -> FpCommit(A, s, t)
      [] s.pc = "vr_token"        -> VrQueryToken(A, s, t)
      [] s.pc = "rp_token"        -> RpQueryToken(A, s, t)
      [] s.pc = "rp_user"         -> RpQueryUser(A, s)
      [] s.pc = "rp_password"     -> RpCommitPassword(A, s)
      [] s.pc = "rp_used"         -> RpCommitUsed(A, s, t)
      [] s.pc = "rp_history"      -> RpCommitHistory(A, s)

RECURSIVE RunAuth(_, _, _)
RunAuth(A, s, t) ==
    IF s.pc = "done" THEN AuthStepTo(A, s)
    ELSE LET r == StepAuth(A, s, t) IN RunAuth(r.db, r.s, t)

\* The whole handler of req, run for client c at time t.
ServeAuth(A, c, req, t) == RunAuth(A, StartAuth(c, req), t)

\* Every user starts with the same strong password and no token.
AuthInit ==
    /\ users = [u \in Users |->
                  [hashed_password |-> hash_password("Start#2024"), updated_at |-> 0]]
    /\ refresh_tokens = << >>
    /\ password_reset_tokens = << >>
    /\ auth_session = [c \in Clients |-> AuthIdle]
    /\ auth_response = [c \in Clients |-> NoAuthResponse]

(***************************************************************************)
(* Spec: requests served one after the other.                              *)
(***************************************************************************)
Init ==
    /\ transactions = << >>
    /\ float_movements = << >>
    /\ float_balances = << >>
    /\ cash_balances = << >>
    /\ issued = [transactions |-> 0, float_movements |-> 0]
    /\ now = 0
    /\ session = [c \in Clients |-> Idle]
    /\ response = [c \in Clients |-> NoResponse]
    /\ AuthInit

Commit(D) ==
    /\ transactions' = D.transactions
    /\ float_movements' = D.float_movements
    /\ float_balances' = D.float_balances
    /\ cash_balances' = D.cash_balances
    /\ issued' = D.issued

\* The client of Spec.
Caller == "c1"

\* Caller sends req and receives the response before anything else runs.
Call(req) ==
    /\ now < MaxOps
    /\ LET r == Serve(DB, req, now + 1)
       IN  /\ Commit(r.db)
           /\ response' = [response EXCEPT ![Caller] = r.s.result]
    /\ now' = now + 1
    /\ UNCHANGED <<session, authvars>>

create_transaction == \E req \in CreateTransactionRequests : Call(req)
update_transaction == \E req \in UpdateTransactionRequests(DB) : Call(req)
delete_transaction == \E req \in DeleteTransactionRequests(DB) : Call(req)
create_float_topup == \E req \in CreateFloatTopupRequests : Call(req)
create_float_withdraw == \E req \in CreateFloatWithdrawRequests : Call(req)
update_float_movement == \E req \in UpdateFloatMovementRequests(DB) : Call(req)
delete_float_movement == \E req \in DeleteFloatMovementRequests(DB) : Call(req)
set_cash_opening_balance == \E req \in SetCashOpeningBalanceRequests : Call(req)
adjust_cash_balance == \E req \in AdjustCashBalanceRequests : Call(req)

Next ==
    \/ create_transaction
    \/ update_transaction
    \/ delete_transaction
    \/ create_float_topup
    \/ create_float_withdraw
    \/ update_float_movement
    \/ delete_float_movement
    \/ set_cash_opening_balance
    \/ adjust_cash_balance

Spec == Init /\ [][Next]_vars

(***************************************************************************)
(* SpecConc: the requests of the clients overlap.  One step of a request   *)
(* is one SQL round trip; the process serving a request may die between    *)
(* two steps (the connection is lost, the worker is killed), which closes  *)
(* its session.                                                            *)
(***************************************************************************)
Finish(c, s) ==
    IF Ended(s)
    THEN /\ session' = [session EXCEPT ![c] = Idle]
         /\ response' = [response EXCEPT ![c] = s.result]
    ELSE /\ session' = [session EXCEPT ![c] = s]
         /\ UNCHANGED response

\* The requests of SpecConc: the owner of shop s1 on one triple, creating
\* with amount 1 and updating to amount 2.
ConcCreate(op) ==
    [Request(op, "u1") EXCEPT !.shop_id = "s1", !.provider_id = "p1",
                              !.category = "mobile", !.amount = {1}]

ConcRequests(D) ==
    { [ConcCreate("create_transaction") EXCEPT !.type = ty] : ty \in {"deposit", "withdrawal"} }
      \cup { [Request("update_transaction", "u1") EXCEPT !.id = id, !.amount = {2}] :
               id \in DOMAIN D.transactions }
      \cup { [Request("delete_transaction", "u1") EXCEPT !.id = id] :
               id \in DOMAIN D.transactions }
      \cup { [ConcCreate("create_float_topup") EXCEPT !.is_new_capital = cap] :
               cap \in BOOLEAN }
      \cup { ConcCreate("create_float_withdraw") }
      \cup { [Request("update_float_movement", "u1") EXCEPT !.id = id, !.amount = {2}] :
               id \in DOMAIN D.float_movements }
      \cup { [Request("delete_float_movement", "u1") EXCEPT !.id = id] :
               id \in DOMAIN D.float_movements }
      \cup { [Request("set_cash_opening_balance", "u1") EXCEPT
                  !.shop_id = "s1", !.amount = {1}] }
      \cup { [Request("adjust_cash_balance", "u1") EXCEPT
                  !.shop_id = "s1", !.amount = {1}, !.adjustment_type = ty] :
               ty \in {"add", "subtract"} }

\* No other client has a request running.
Alone(c) == \A d \in Clients \ {c} : session[d].pc = "idle"

\* The handler of req starts for client c: its lookups and access check.
\* The first request of a run is served alone, the later ones overlap.
Begin(c, req) ==
    /\ now < MaxConcOps
    /\ session[c].pc = "idle"
    /\ now = 1 => Alone(c)
    /\ Accepted(DB, req)
    /\ session' = [session EXCEPT ![c] = StartSession(DB, req)]
    /\ now' = now + 1
    /\ UNCHANGED <<transactions, float_movements, float_balances, cash_balances,
                   issued, response, authvars>>

\* The request of client c makes its next SQL round trip.
Proceed(c) ==
    /\ session[c].pc # "idle"
    /\ LET r == StepSession(DB, session[c], now)
       IN  /\ Commit(r.db)
           /\ Finish(c, r.s)
    /\ UNCHANGED <<now, authvars>>

\* The request of client c dies where it is: nothing more is committed.
Abort(c) ==
    /\ session[c].pc # "idle"
    /\ session' = [session EXCEPT ![c] = Idle]
    /\ response' = [response EXCEPT ![c] =
           [status |-> 500, op |-> session[c].req.op, id |-> session[c].req.id,
            balance_updates |-> NoBalances, commits |-> session[c].commits]]
    /\ UNCHANGED <<transactions, float_movements, float_balances, cash_balances,
                   issued, now, authvars>>

BeginRequest == \E c \in Clients : \E req \in ConcRequests(DB) : Begin(c, req)
ProceedRequest == \E c \in Clients : Proceed(c)
AbortRequest == \E c \in Clients : Abort(c)

NextConc == BeginRequest \/ ProceedRequest \/ AbortRequest

SpecConc == Init /\ [][NextConc]_vars

(***************************************************************************)
(* SpecAuth: the auth routes, served one request after the other.          *)
(***************************************************************************)
AuthCommit(A) ==
    /\ users' = A.users
    /\ refresh_tokens' = A.refresh_tokens
    /\ password_reset_tokens' = A.password_reset_tokens

ledgervars == <<transactions, float_movements, float_balances, cash_balances,
                issued, session, response>>

\* The refresh tokens a client can send: those issued so far, whether
\* their rows still exist or not, and one that was never issued.
KnownTokens == { <<Caller, t>> : t \in 0..now }

\* The identifiers and path ids of the requests: the users and the cashier
\* profile, and one of each that matches no row.
Identifiers == Users \cup {"nobody"}
CashierIds == DOMAIN CashierUser \cup {"k0"}
SentCodes == ResetCodes \cup {"ZZZZZZ"}

LoginRequests ==
    { [AuthRequest("login") EXCEPT !.identifier = u, !.password = p] :
        u \in {"u1", "u3", "nobody"}, p \in {"Start#2024", "Fresh#2025"} }

RefreshTokenRequests ==
    { [AuthRequest("refresh_token") EXCEPT !.token = k] : k \in KnownTokens }

LogoutRequests ==
    { [AuthRequest("logout") EXCEPT !.token = k] : k \in KnownTokens }

ChangePasswordRequests ==
    { [AuthRequest("change_password") EXCEPT
          !.user = u, !.password = p, !.new_password = q,
          !.shared_session = shared] :
        u \in {"u1", "u3"}, p \in {"Start#2024", "Fresh#2025"},
        q \in DOMAIN Passwords, shared \in BOOLEAN }

ResetCashierPasswordRequests ==
    { [AuthRequest("reset_cashier_password") EXCEPT
          !.user = u, !.cashier_id = k, !.new_password = q] :
        u \in {"u1", "u3"}, k \in CashierIds, q \in {"Fresh#2025", "fresh2025"} }

ForgotPasswordRequests ==
    { [AuthRequest("forgot_password") EXCEPT
          !.identifier = u, !.code = code, !.mail_sent = sent] :
        u \in Identifiers, code \in ResetCodes, sent \in BOOLEAN }

VerifyResetTokenRequests ==
    { [AuthRequest("verify_reset_token") EXCEPT !.code = code] : code \in SentCodes }

ResetPasswordRequests ==
    { [AuthRequest("reset_password") EXCEPT
          !.code = code, !.new_password = q, !.first = order] :
        code \in SentCodes, q \in {"Fresh#2025", "fresh2025"},
        order \in {"asc", "desc"} }

\* Caller sends req and receives the response before anything else runs.
AuthCall(req) ==
    /\ now < MaxAuthOps
    /\ LET r == ServeAuth(ADB, Caller, req, now + 1)
       IN  /\ AuthCommit(r.db)
           /\ auth_response' = [auth_response EXCEPT ![Caller] = r.s.result]
    /\ now' = now + 1
    /\ UNCHANGED <<ledgervars, auth_session>>

login == \E req \in LoginRequests : AuthCall(req)
refresh_token == \E req \in RefreshTokenRequests : AuthCall(req)
logout == \E req \in LogoutRequests : AuthCall(req)
change_password == \E req \in ChangePasswordRequests : AuthCall(req)
reset_cashier_password == \E req \in ResetCashierPasswordRequests : AuthCall(req)
forgot_password == \E req \in ForgotPasswordRequests : AuthCall(req)
verify_reset_token == \E req \in VerifyResetTokenRequests : AuthCall(req)
reset_password == \E req \in ResetPasswordRequests : AuthCall(req)

NextAuth ==
    \/ login
    \/ refresh_token
    \/ logout
    \/ change_password
    \/ reset_cashier_password
    \/ forgot_password
    \/ verify_reset_token
    \/ reset_password

SpecAuth == Init /\ [][NextAuth]_vars

(***************************************************************************)
(* SpecAuthConc: the auth requests of the clients overlap, one SQL round   *)
(* trip per step.                                                          *)
(***************************************************************************)
\* The requests of SpecAuthConc: user u1 with one reset code.
ConcAuthRequests(A) ==
    { [AuthRequest("login") EXCEPT !.identifier = "u1", !.password = "Start#2024"] }
      \cup { [AuthRequest(op) EXCEPT !.token = k] :
               op \in {"refresh_token", "logout"}, k \in DOMAIN A.refresh_tokens }
      \cup { [AuthRequest("change_password") EXCEPT
                 !.user = "u1", !.password = "Start#2024",
                 !.new_password = "Fresh#2025", !.shared_session = shared] :
               shared \in BOOLEAN }
      \cup { [AuthRequest("forgot_password") EXCEPT
                 !.identifier = "u1", !.code = "AB9XQ2"] }
      \cup { [AuthRequest("verify_reset_token") EXCEPT !.code = "AB9XQ2"] }
      \cup { [AuthRequest("reset_password") EXCEPT
                 !.code = "AB9XQ2", !.new_password = q] :
               q \in {"Fresh#2025", "Other#2026"} }

BeginAuth(c, req) ==
    /\ now < MaxAuthConcOps
    /\ auth_session[c].pc = "idle"
    /\ auth_session' = [auth_session EXCEPT ![c] = StartAuth(c, req)]
    /\ now' = now + 1
    /\ UNCHANGED <<ledgervars, users, refresh_tokens, password_reset_tokens,
                   auth_response>>

\* The request of client c makes its next SQL round trip.
ProceedAuth(c) ==
    /\ auth_session[c].pc # "idle"
    /\ LET r == StepAuth(ADB, auth_session[c], now)
       IN  /\ AuthCommit(r.db)
           /\ IF r.s.pc = "done"
              THEN /\ auth_session' = [auth_session EXCEPT ![c] = AuthIdle]
                   /\ auth_response' = [auth_response EXCEPT ![c] = r.s.result]
              ELSE /\ auth_session' = [auth_session EXCEPT ![c] = r.s]
                   /\ UNCHANGED auth_response
    /\ UNCHANGED <<ledgervars, now>>

\* The request of client c dies where it is: nothing more is committed.
AbortAuth(c) ==
    /\ auth_session[c].pc # "idle"
    /\ auth_session' = [auth_session EXCEPT ![c] = AuthIdle]
    /\ auth_response' = [auth_response EXCEPT ![c] =
           [NoAuthResponse EXCEPT !.status = 500, !.op = auth_session[c].req.op,
                                  !.commits = auth_session[c].commits,
                                  !.req = auth_session[c].req]]
    /\ UNCHANGED <<ledgervars, now, users, refresh_tokens, password_reset_tokens>>

BeginAuthRequest == \E c \in Clients : \E req \in ConcAuthRequests(ADB) : BeginAuth(c, req)
ProceedAuthRequest == \E c \in Clients : ProceedAuth(c)
AbortAuthRequest == \E c \in Clients : AbortAuth(c)

NextAuthConc == BeginAuthRequest \/ ProceedAuthRequest \/ AbortAuthRequest

SpecAuthConc == Init /\ [][NextAuthConc]_vars

(***************************************************************************)
(* The classification table: what each ledger row is meant to contribute   *)
(* to the float balance of its triple and to the cash balance of its shop. *)
(***************************************************************************)
\* "affects_float" of get_transaction_types
affects_float(type) ==
    IF type \in {"withdrawal", "bank_withdrawal", "wallet_to_account"}
    THEN "increment" ELSE "decrement"

\* "affects_cash" of get_transaction_types
affects_cash(type) ==
    IF type \in {"withdrawal", "bank_withdrawal"} THEN "decrement"
    ELSE IF type \in {"account_to_wallet", "wallet_to_account"} THEN "none"
    ELSE "increment"

Signed(effect, amount) ==
    IF effect = "increment" THEN amount
    ELSE IF effect = "decrement" THEN 0 - amount
    ELSE 0

TableTxnFloat(row) == Signed(affects_float(row.type), row.amount)
TableTxnCash(row)  == Signed(affects_cash(row.type), row.amount)
\* FloatMovement.top_up: float increment, cash decrement (skipped for new
\* capital); FloatMovement.withdraw: float decrement, cash increment
TableMovFloat(row) == IF row.type = "top_up" THEN row.amount ELSE 0 - row.amount
TableMovCash(row)  ==
    IF row.type = "top_up"
    THEN IF row.is_new_capital THEN 0 ELSE 0 - row.amount
    ELSE row.amount

RECURSIVE SumOver(_, _)
SumOver(f, S) ==
    IF S = {} THEN 0
    ELSE LET x == CHOOSE y \in S : TRUE IN f[x] + SumOver(f, S \ {x})

RowKey(row) == FloatKey(row.shop_id, row.provider_id, row.category)

LedgerCash(D, shop_id) ==
    SumOver([id \in DOMAIN D.transactions |-> TableTxnCash(D.transactions[id])],
            {id \in DOMAIN D.transactions : D.transactions[id].shop_id = shop_id})
    + SumOver([id \in DOMAIN D.float_movements |-> TableMovCash(D.float_movements[id])],
              {id \in DOMAIN D.float_movements : D.float_movements[id].shop_id = shop_id})

LedgerFloat(D, k) ==
    SumOver([id \in DOMAIN D.transactions |-> TableTxnFloat(D.transactions[id])],
            {id \in DOMAIN D.transactions : RowKey(D.transactions[id]) = k})
    + SumOver([id \in DOMAIN D.float_movements |-> TableMovFloat(D.float_movements[id])],
              {id \in DOMAIN D.float_movements : RowKey(D.float_movements[id]) = k})

OpeningOf(D, shop_id) ==
    IF shop_id \in DOMAIN D.cash_balances THEN D.cash_balances[shop_id].opening_balance ELSE 0

\* The balances alone, a missing row read as zero.
Balances(D) ==
    [float |-> [k \in FloatKeys |-> FloatOf(D, k)],
     cash  |-> [sh \in Shops |-> CashOf(D, sh)]]

\* The last response of the client of Spec, and whether the step is the
\* successful call of op.
Last == response[Caller]
Called(op) == now' = now + 1 /\ response'[Caller].op = op /\ response'[Caller].status = 200

(***************************************************************************)
(* C1.  After any sequence of requests, the cash balance of every shop is  *)
(* its opening balance plus the signed cash effects, by the classification *)
(* table, of the Transaction and FloatMovement rows of the shop.           *)
(***************************************************************************)
C1_CashLedgerInvariant ==
    \A sh \in Shops : CashOf(DB, sh) = OpeningOf(DB, sh) + LedgerCash(DB, sh)

(***************************************************************************)
(* C2.  After any sequence of requests, the float balance of every (shop,  *)
(* provider, category) is the sum of the signed float effects, by the      *)
(* classification table, of the rows of that triple; zero when none.       *)
(***************************************************************************)
C2_FloatLedgerInvariant ==
    \A k \in FloatKeys : FloatOf(DB, k) = LedgerFloat(DB, k)

(***************************************************************************)
(* C3.  No lost update: a request that writes a balance back writes what   *)
(* it would have written had it read the balance at the time of the write, *)
(* so the balance carries the effect of every request that committed.      *)
(***************************************************************************)
BalanceCommits == {"ub_commit", "ct_commit", "ut_commit", "dt_commit", "ac_commit"}

\* The session with its balance objects loaded from the committed rows.
Reloaded(D, s) ==
    LET k    == IF s.pc = "ub_commit"
                THEN FloatKey(s.ub.shop_id, s.ub.provider_id, s.ub.category)
                ELSE IF s.pc = "ct_commit" THEN ReqFloatKey(s) ELSE RowFloatKey(s)
        shop == IF s.pc = "ub_commit" THEN s.ub.shop_id
                ELSE IF s.pc \in {"ct_commit", "ac_commit"} THEN s.req.shop_id
                ELSE s.row.shop_id
        f    == LoadFloat(D, k)
        c    == LoadCash(D, shop)
    IN  [s EXCEPT !.float_balance = IF s.pc = "ac_commit" THEN @
                                    ELSE IF f.state = "none" THEN Pending ELSE f,
                  !.cash_balance = IF c.state = "none" THEN Pending ELSE c]

C3_NoLostUpdate ==
    [][\A c \in Clients :
          ( /\ Proceed(c)
            /\ session[c].pc \in BalanceCommits
            /\ StepSession(DB, session[c], now).s.commits > session[c].commits )
          => Balances(DB') = Balances(StepSession(DB, Reloaded(DB, session[c]), now).db)
      ]_vars

(***************************************************************************)
(* C4.  update_float_movement is all-or-nothing: every commit it makes     *)
(* takes the database from the state before the update to the state after  *)
(* the whole update (reversal, new amount and reapplication), so that no   *)
(* state in between is ever committed.  Stated for a request that runs     *)
(* with no other client active.                                            *)
(***************************************************************************)
C4_UpdateMovementAtomic ==
    [][\A c \in Clients :
          ( /\ Proceed(c)
            /\ Alone(c)
            /\ session[c].req.op = "update_float_movement"
            /\ session[c].commits = 0
            /\ DB' # DB )
          => DB' = Handle(DB, session[c].req, now).db
      ]_vars

(***************************************************************************)
(* C5.  A create request (create_float_topup, create_float_withdraw,       *)
(* create_transaction) that fails part-way has committed nothing: no       *)
(* FloatMovement row without its balance effect, no balance row created    *)
(* or changed without the Transaction row.                                 *)
(***************************************************************************)
CreateOps == {"create_float_topup", "create_float_withdraw", "create_transaction"}

C5_FailedCreateCommitsNothing ==
    [][\A c \in Clients :
          (Abort(c) /\ session[c].req.op \in CreateOps) => session[c].commits = 0
      ]_vars

(***************************************************************************)
(* C6.  A transaction created and then deleted, with nothing in between,   *)
(* leaves the float balance of its triple and the cash balance of its shop *)
(* at their values before the create.                                      *)
(***************************************************************************)
\* The create_transaction requests of every type of TransactionType that
\* pass the access and provider checks.
AcceptedCreates ==
    { req \in CreateTransactionRequestsOf(TransactionType) : Accepted(DB, req) }

\* The database after req, a create_transaction, and after the delete by the
\* shop owner of the row it created.
AfterCreate(req) == Handle(DB, req, now + 1).db
AfterCreateDelete(req) ==
    LET D == AfterCreate(req)
    IN  Handle(D, [Request("delete_transaction", ShopOwner[req.shop_id]) EXCEPT
                      !.id = D.issued.transactions], now + 1).db

C6_CreateDeleteTransaction ==
    \A req \in AcceptedCreates :
        /\ AfterCreate(req).issued.transactions \in DOMAIN AfterCreate(req).transactions
        /\ Balances(AfterCreateDelete(req)) = Balances(DB)

(***************************************************************************)
(* C7.  A float movement (top-up, capital top-up or withdraw) created and  *)
(* then deleted, with nothing in between, leaves the float balance and the *)
(* cash balance at their values before the create.                         *)
(***************************************************************************)
C7_CreateDeleteMovement ==
    [][( /\ Last.op \in {"create_float_topup", "create_float_withdraw"}
         /\ Last.status = 200
         /\ Called("delete_float_movement")
         /\ response'[Caller].id = Last.id )
       => /\ FloatOf(DB', RowKey(float_movements[Last.id]))
                = Last.balance_updates.float_balance.previous
          /\ CashOf(DB', float_movements[Last.id].shop_id)
                = Last.balance_updates.cash_balance.previous
      ]_vars

(***************************************************************************)
(* C8.  Updating the amount of a transaction to b gives the same balances  *)
(* as deleting the transaction and creating one of amount b with the same  *)
(* type, category and provider.                                            *)
(***************************************************************************)
UpdateTo(id, b) ==
    [Request("update_transaction", ShopOwner[transactions[id].shop_id]) EXCEPT
        !.id = id, !.amount = {b}]
DeleteOf(id) ==
    [Request("delete_transaction", ShopOwner[transactions[id].shop_id]) EXCEPT !.id = id]
CreateLike(id, b) ==
    LET row == transactions[id]
    IN  [Request("create_transaction", ShopOwner[row.shop_id]) EXCEPT
            !.shop_id = row.shop_id, !.provider_id = row.provider_id,
            !.category = row.category, !.type = row.type, !.amount = {b}]

C8_UpdateIsDeleteThenCreate ==
    \A id \in DOMAIN transactions : \A b \in Amounts :
        Accepted(DB, CreateLike(id, b)) =>
            Balances(Handle(DB, UpdateTo(id, b), now + 1).db)
              = Balances(Handle(Handle(DB, DeleteOf(id), now + 1).db,
                                CreateLike(id, b), now + 1).db)

(***************************************************************************)
(* C9.  Updating a top-up created with is_new_capital = true leaves the    *)
(* cash balance of the shop unchanged and changes the float balance of the *)
(* triple by the new amount minus the old one.                             *)
(***************************************************************************)
C9_UpdateCapitalTopup ==
    [][\A id \in DOMAIN float_movements :
          ( /\ Called("update_float_movement")
            /\ response'[Caller].id = id
            /\ float_movements[id].type = "top_up"
            /\ float_movements[id].is_new_capital )
          => /\ CashOf(DB', float_movements[id].shop_id)
                   = CashOf(DB, float_movements[id].shop_id)
             /\ FloatOf(DB', RowKey(float_movements[id]))
                   = FloatOf(DB, RowKey(float_movements[id]))
                       + float_movements'[id].amount - float_movements[id].amount
      ]_vars

(***************************************************************************)
(* C10.  update_balances is operation-symmetric: from any state, for any   *)
(* key and amount, a call with "top_up" (not new capital) followed by a    *)
(* call with "withdraw" of the same amount on the same key leaves the      *)
(* float balance and the cash balance at their values before the first.    *)
(***************************************************************************)
TopUpThenWithdraw(D, k, a) ==
    update_balances(
        update_balances(D, k[1], k[2], k[3], a, "top_up", FALSE, now + 1).db,
        k[1], k[2], k[3], a, "withdraw", FALSE, now + 1).db

C10_TopUpWithdrawSymmetric ==
    \A k \in FloatKeys : \A a \in Amounts :
        LET after == TopUpThenWithdraw(DB, k, a)
        IN  /\ FloatOf(after, k) = FloatOf(DB, k)
            /\ CashOf(after, k[1]) = CashOf(DB, k[1])

\* A top-up (not new capital) and a withdraw of the same amount on the same
\* key have run, and the balances are back at zero.
C10_Witness ==
    /\ now = 2
    /\ DOMAIN float_movements = {1, 2}
    /\ float_movements[1].type = "top_up" /\ ~float_movements[1].is_new_capital
    /\ float_movements[2].type = "withdraw"
    /\ float_movements[1].amount = float_movements[2].amount
    /\ RowKey(float_movements[1]) = RowKey(float_movements[2])
    /\ Last.op = "create_float_withdraw" /\ Last.status = 200
    /\ Last.balance_updates.float_balance.current = 0
    /\ Last.balance_updates.cash_balance.current = 0
    /\ FloatOf(DB, RowKey(float_movements[1])) = 0
    /\ CashOf(DB, float_movements[1].shop_id) = 0

(***************************************************************************)
(* C11.  Creating a top-up with is_new_capital = true changes the float    *)
(* balance of its triple by +amount and leaves the cash balance of the     *)
(* shop unchanged; the reported cash_balance.change is 0.                  *)
(***************************************************************************)
\* The movement created by the step, a successful create of a float movement.
Created == float_movements'[response'[Caller].id]

C11_CapitalTopupCreate ==
    [][(Called("create_float_topup") /\ Created.is_new_capital)
       => /\ FloatOf(DB', RowKey(Created)) = FloatOf(DB, RowKey(Created)) + Created.amount
          /\ CashOf(DB', Created.shop_id) = CashOf(DB, Created.shop_id)
          /\ response'[Caller].balance_updates.cash_balance.change = 0
      ]_vars

\* A capital top-up has just been created: float moved by its amount, cash
\* did not move.
C11_Witness ==
    /\ Last.op = "create_float_topup" /\ Last.status = 200
    /\ Last.id \in DOMAIN float_movements
    /\ float_movements[Last.id].is_new_capital
    /\ Last.balance_updates.float_balance.change = float_movements[Last.id].amount
    /\ Last.balance_updates.cash_balance.change = 0
    /\ CashOf(DB, float_movements[Last.id].shop_id) = 0

(***************************************************************************)
(* C12.  Creating a float movement applies the effect of the table: a      *)
(* top-up with is_new_capital = false changes float by +amount and cash by *)
(* -amount; a withdraw changes float by -amount and cash by +amount.       *)
(***************************************************************************)
C12_MovementCreateEffect ==
    [][/\ (Called("create_float_topup") /\ ~Created.is_new_capital)
          => /\ FloatOf(DB', RowKey(Created)) = FloatOf(DB, RowKey(Created)) + Created.amount
             /\ CashOf(DB', Created.shop_id) = CashOf(DB, Created.shop_id) - Created.amount
       /\ Called("create_float_withdraw")
          => /\ FloatOf(DB', RowKey(Created)) = FloatOf(DB, RowKey(Created)) - Created.amount
             /\ CashOf(DB', Created.shop_id) = CashOf(DB, Created.shop_id) + Created.amount
      ]_vars

\* A top-up of 2 (not new capital) was followed by a withdraw of 1 on the
\* same triple.
C12_Witness ==
    /\ DOMAIN float_movements = {1, 2}
    /\ float_movements[1].type = "top_up" /\ ~float_movements[1].is_new_capital
    /\ float_movements[1].amount = 2
    /\ float_movements[2].type = "withdraw" /\ float_movements[2].amount = 1
    /\ RowKey(float_movements[1]) = RowKey(float_movements[2])
    /\ Last.op = "create_float_withdraw" /\ Last.status = 200
    /\ FloatOf(DB, RowKey(float_movements[1])) = 1
    /\ CashOf(DB, float_movements[1].shop_id) = -1

(***************************************************************************)
(* C13.  Creating a transaction of a type other than withdrawal,           *)
(* bank_withdrawal, account_to_wallet and wallet_to_account changes float  *)
(* by -amount and cash by +amount; on a shop and provider with no balance  *)
(* rows a deposit of 1000.00 takes float 0 -> -1000.00 and cash            *)
(* 0 -> +1000.00, both rows being created.                                 *)
(***************************************************************************)
PlainTypes ==
    TransactionType \ {"withdrawal", "bank_withdrawal", "account_to_wallet",
                       "wallet_to_account"}

\* create_transaction by the owner of the shop of provider p
CreateOf(p, c, ty, a) ==
    [Request("create_transaction", ShopOwner[ProviderShop[p]]) EXCEPT
        !.shop_id = ProviderShop[p], !.provider_id = p, !.category = c,
        !.type = ty, !.amount = {a}]

ReqKey(req) == FloatKey(req.shop_id, req.provider_id, req.category)

\* D2 is D with a transaction row added and the balances of its triple and
\* shop moved by df and dc.
MovedBy(D, D2, req, df, dc) ==
    /\ DOMAIN D2.transactions = DOMAIN D.transactions \cup {D.issued.transactions + 1}
    /\ ReqKey(req) \in DOMAIN D2.float_balances
    /\ req.shop_id \in DOMAIN D2.cash_balances
    /\ FloatOf(D2, ReqKey(req)) = FloatOf(D, ReqKey(req)) + df
    /\ CashOf(D2, req.shop_id) = CashOf(D, req.shop_id) + dc

C13_PlainCreateEffect ==
    \A p \in Providers : \A c \in Category : \A ty \in PlainTypes :
      \A a \in Amounts \cup {100000} :
        LET req == CreateOf(p, c, ty, a)
        IN  MovedBy(DB, Handle(DB, req, now + 1).db, req, 0 - a, a)

\* A deposit of 2 has been created on a shop and triple that had no rows.
C13_Witness ==
    /\ now = 1
    /\ DOMAIN transactions = {1}
    /\ transactions[1].type = "deposit" /\ transactions[1].amount = 2
    /\ Last.op = "create_transaction"
    /\ FloatOf(DB, RowKey(transactions[1])) = -2
    /\ CashOf(DB, transactions[1].shop_id) = 2

(***************************************************************************)
(* C14.  Creating a transaction of type withdrawal or bank_withdrawal      *)
(* changes float by +amount and cash by -amount; after a deposit of        *)
(* 1000.00 on a new shop, a withdrawal of 400.00 takes float -1000.00 ->   *)
(* -600.00 and cash 1000.00 -> 600.00.                                     *)
(***************************************************************************)
NewShop(D, p, c) ==
    /\ FloatKey(ProviderShop[p], p, c) \notin DOMAIN D.float_balances
    /\ ProviderShop[p] \notin DOMAIN D.cash_balances

AfterDeposit1000(p, c) == Handle(DB, CreateOf(p, c, "deposit", 100000), now + 1).db

C14_WithdrawalCreateEffect ==
    \A p \in Providers : \A c \in Category :
      /\ \A ty \in {"withdrawal", "bank_withdrawal"} : \A a \in Amounts :
            LET req == CreateOf(p, c, ty, a)
            IN  MovedBy(DB, Handle(DB, req, now + 1).db, req, a, 0 - a)
      /\ NewShop(DB, p, c) =>
            LET D   == AfterDeposit1000(p, c)
                req == CreateOf(p, c, "withdrawal", 40000)
                D2  == Handle(D, req, now + 1).db
            IN  /\ FloatOf(D, ReqKey(req)) = -100000 /\ CashOf(D, req.shop_id) = 100000
                /\ MovedBy(D, D2, req, 40000, -40000)
                /\ FloatOf(D2, ReqKey(req)) = -60000 /\ CashOf(D2, req.shop_id) = 60000

\* A deposit of 2 on a new shop was followed by a withdrawal of 1 on the
\* same triple.
C14_Witness ==
    /\ now = 2
    /\ DOMAIN transactions = {1, 2}
    /\ transactions[1].type = "deposit" /\ transactions[1].amount = 2
    /\ transactions[2].type = "withdrawal" /\ transactions[2].amount = 1
    /\ RowKey(transactions[1]) = RowKey(transactions[2])
    /\ Last.op = "create_transaction"
    /\ FloatOf(DB, RowKey(transactions[1])) = -1
    /\ CashOf(DB, transactions[1].shop_id) = 1

(***************************************************************************)
(* C15.  Creating an account_to_wallet transaction of amount a decrements  *)
(* the float balance of its triple by a and leaves the cash balance of the *)
(* shop unchanged.                                                         *)
(***************************************************************************)
C15_AccountToWalletCreate ==
    \A p \in Providers : \A c \in Category : \A a \in Amounts :
        LET req == CreateOf(p, c, "account_to_wallet", a)
        IN  MovedBy(DB, Handle(DB, req, now + 1).db, req, 0 - a, 0)

(***************************************************************************)
(* C16.  Creating a wallet_to_account transaction of amount a increments   *)
(* the float balance of its triple by a and leaves the cash balance of the *)
(* shop unchanged.                                                         *)
(***************************************************************************)
C16_WalletToAccountCreate ==
    \A p \in Providers : \A c \in Category : \A a \in Amounts :
        LET req == CreateOf(p, c, "wallet_to_account", a)
        IN  MovedBy(DB, Handle(DB, req, now + 1).db, req, a, 0)

(***************************************************************************)
(* C17.  update_transaction changing the amount from a to b nets to the    *)
(* effect of the type applied to b - a: float changes by -(b - a) and cash *)
(* by +(b - a) for the types other than withdrawal and bank_withdrawal,    *)
(* float by +(b - a) and cash by -(b - a) for these two.                   *)
(***************************************************************************)
C17_UpdateNetEffect ==
    \A id \in DOMAIN transactions : \A b \in Amounts :
        LET row  == transactions[id]
            D2   == Handle(DB, UpdateTo(id, b), now + 1).db
            d    == b - row.amount
            sign == IF row.type \in {"withdrawal", "bank_withdrawal"} THEN 1 ELSE -1
        IN  /\ D2.transactions[id].amount = b
            /\ FloatOf(D2, RowKey(row)) = FloatOf(DB, RowKey(row)) + sign * d
            /\ CashOf(D2, row.shop_id) = CashOf(DB, row.shop_id) - sign * d

(***************************************************************************)
(* C18.  create_transaction, update_transaction, create_float_topup,       *)
(* create_float_withdraw and update_float_movement return a                *)
(* balance_updates payload in which, for float_balance and cash_balance,   *)
(* change = current - previous and current is the balance stored for the   *)
(* row when the operation committed.                                       *)
(***************************************************************************)
PayloadOps ==
    {"create_transaction", "update_transaction", "create_float_topup",
     "create_float_withdraw", "update_float_movement"}

\* The step is a call of op that committed, whatever its response.
Served(op) ==
    now' = now + 1 /\ response'[Caller].op = op /\ response'[Caller].commits > 0

\* The ledger row the step created or updated.
Touched ==
    CASE response'[Caller].op = "create_transaction" -> transactions'[issued'.transactions]
      [] response'[Caller].op = "update_transaction" -> transactions'[response'[Caller].id]
      [] OTHER -> float_movements'[response'[Caller].id]

C18_PayloadConsistent ==
    [][\A op \in PayloadOps :
          Served(op) =>
            LET bu == response'[Caller].balance_updates
            IN  /\ response'[Caller].status = 200
                /\ bu.float_balance.change = bu.float_balance.current - bu.float_balance.previous
                /\ bu.cash_balance.change = bu.cash_balance.current - bu.cash_balance.previous
                /\ bu.float_balance.current = FloatOf(DB', RowKey(Touched))
                /\ bu.cash_balance.current = CashOf(DB', Touched.shop_id)
      ]_vars

(***************************************************************************)
(* C19.  The balance_updates returned by an update (update_float_movement, *)
(* update_transaction) spans the reversal and the reapplication: previous  *)
(* is the balance before any change made by the call, current the balance  *)
(* after the reapplication.                                                *)
(***************************************************************************)
C19_UpdatePayloadSpansCall ==
    [][\A op \in {"update_float_movement", "update_transaction"} :
          Called(op) =>
            LET bu == response'[Caller].balance_updates
            IN  /\ bu.float_balance.previous = FloatOf(DB, RowKey(Touched))
                /\ bu.cash_balance.previous = CashOf(DB, Touched.shop_id)
                /\ bu.float_balance.current = FloatOf(DB', RowKey(Touched))
                /\ bu.cash_balance.current = CashOf(DB', Touched.shop_id)
      ]_vars

(***************************************************************************)
(* C20.  No create, update or delete of a Transaction or FloatMovement is  *)
(* rejected because a balance would become negative: from any state, a     *)
(* request that passes the access checks succeeds.                         *)
(***************************************************************************)
LedgerOps ==
    {"create_transaction", "update_transaction", "delete_transaction",
     "create_float_topup", "create_float_withdraw", "update_float_movement",
     "delete_float_movement"}

C20_NeverRejected ==
    \A req \in Requests(DB) :
        (req.op \in LedgerOps /\ Accepted(DB, req))
          => Handle(DB, req, now + 1).s.result.status = 200

(***************************************************************************)
(* C21.  A request by a user who is neither the owner nor a cashier of the *)
(* shop it addresses changes no balance row and no ledger row, and ends in *)
(* an error: 404 when the shop does not exist, 403 otherwise.              *)
(***************************************************************************)
\* The shop a request addresses: the shop of its path, or the shop of the
\* row it names.
TargetShop(D, req) ==
    CASE req.op \in {"update_transaction", "delete_transaction"} ->
            D.transactions[req.id].shop_id
      [] req.op \in {"update_float_movement", "delete_float_movement"} ->
            D.float_movements[req.id].shop_id
      [] OTHER -> req.shop_id

\* The requests that address a shop or a shop id of no shop
Addressed(D) ==
    { req \in Requests(D) :
        /\ req.op \in {"update_transaction", "delete_transaction"}
             => req.id \in DOMAIN D.transactions
        /\ req.op \in {"update_float_movement", "delete_float_movement"}
             => req.id \in DOMAIN D.float_movements }

C21_AuthorizationPrecedesMutation ==
    \A req \in Addressed(DB) :
        ~verify_shop_access(TargetShop(DB, req), req.user) =>
            LET r == Serve(DB, req, now + 1)
            IN  /\ r.db = DB
                /\ r.s.result.status =
                      IF TargetShop(DB, req) \in Shops THEN 403 ELSE 404

(***************************************************************************)
(* C22.  update_transaction and delete_transaction by a user who is not    *)
(* the owner of the transaction's shop (a cashier of the shop included)    *)
(* end with 403 and leave the transaction row and both balances unchanged. *)
(***************************************************************************)
\* The update and delete requests on transaction id by user u
OnTransaction(id, u) ==
    { [Request("update_transaction", u) EXCEPT !.id = id, !.amount = am] :
        am \in OptionalAmounts }
      \cup { [Request("delete_transaction", u) EXCEPT !.id = id] }

C22_OnlyOwnerChangesTransaction ==
    \A id \in DOMAIN transactions : \A u \in Users :
        ShopOwner[transactions[id].shop_id] # u =>
            \A req \in OnTransaction(id, u) :
                LET r == Serve(DB, req, now + 1)
                IN  /\ r.s.result.status = 403
                    /\ r.db.transactions = transactions
                    /\ Balances(r.db) = Balances(DB)

\* A cashier of the shop asked to update or delete a transaction of the shop
\* and received 403.
C22_Witness ==
    /\ Last.op \in {"update_transaction", "delete_transaction"}
    /\ Last.status = 403
    /\ Last.id \in DOMAIN transactions
    /\ \E u \in Users :
          /\ <<u, transactions[Last.id].shop_id>> \in Cashiers
          /\ \A req \in OnTransaction(Last.id, u) :
                Serve(DB, req, now + 1).s.result.status = 403

(***************************************************************************)
(* C23.  Get-or-create of a balance row: a missing CashBalance or          *)
(* FloatBalance row is created from balance 0, and a request that creates  *)
(* one succeeds in doing so also when another request has made the first   *)
(* reference to the same key at the same time (one row per key, both       *)
(* requests applied to it).                                                *)
(***************************************************************************)
\* The next round trip of session s INSERTs a balance row it constructed.
CreatesBalanceRow(s) ==
    \/ s.pc \in {"ct_ins_float", "ct_ins_cash"}
    \/ s.pc = "ub_commit" /\ "pending" \in {s.float_balance.state, s.cash_balance.state}

C23_GetOrCreateBalance ==
    [][\A c \in Clients :
          (Proceed(c) /\ CreatesBalanceRow(session[c])) =>
            LET r == StepSession(DB, session[c], now)
            IN  /\ r.s.pc # "failed"
                /\ session[c].float_balance.state = "pending" => r.s.prev_float = 0
                /\ session[c].cash_balance.state = "pending" => r.s.prev_cash = 0
      ]_vars

(***************************************************************************)
(* C24.  update_transaction and delete_transaction are atomic: the changes *)
(* of the balances and the change of the Transaction row are made by one   *)
(* commit, the last statement of the handler that touches the database; a  *)
(* request that fails or dies before it leaves the Transaction rows, the   *)
(* FloatBalance rows and the CashBalance rows as they were.                *)
(***************************************************************************)
TransactionChanges == {"update_transaction", "delete_transaction"}

C24_TransactionChangeAtomic ==
    [][\A c \in Clients :
          session[c].req.op \in TransactionChanges =>
            /\ Abort(c) => session[c].commits = 0
            /\ Proceed(c) =>
                 \/ DB' = DB
                 \/ /\ session[c].commits = 0
                    /\ session'[c].pc = "idle"
                    /\ response'[c].commits = 1
      ]_vars

\* An update or a delete of an existing transaction ended before its commit
\* and the transaction is still there.
C24_Witness ==
    \E c \in Clients :
        /\ response[c].op \in TransactionChanges
        /\ response[c].status = 500
        /\ response[c].commits = 0
        /\ response[c].id \in DOMAIN transactions

(***************************************************************************)
(* C25.  An update changes no identity field: update_transaction leaves    *)
(* shop_id, provider_id, category, type, recorded_by and transaction_date  *)
(* of the row as they were, update_float_movement leaves shop_id,          *)
(* provider_id, type, category and is_new_capital as they were, whatever   *)
(* keys the body holds; the amount becomes the amount of the body.         *)
(***************************************************************************)
TransactionIdentity(row) ==
    <<row.shop_id, row.provider_id, row.category, row.type, row.recorded_by,
      row.transaction_date>>

MovementIdentity(row) ==
    <<row.shop_id, row.provider_id, row.type, row.category, row.is_new_capital>>

\* The update requests on row id by the owner of its shop
OwnerUpdates(op, rows, id, type) ==
    { WithBody([Request(op, ShopOwner[rows[id].shop_id]) EXCEPT
                    !.id = id, !.amount = am], b) :
        am \in OptionalAmounts, b \in UpdateBodies(type) }

C25_UpdateKeepsIdentity ==
    /\ \A id \in DOMAIN transactions :
         \A req \in OwnerUpdates("update_transaction", transactions, id, "withdrawal") :
            LET after == Serve(DB, req, now + 1).db.transactions
            IN  /\ id \in DOMAIN after
                /\ TransactionIdentity(after[id]) = TransactionIdentity(transactions[id])
                /\ after[id].amount = BodyGetAmount(req, transactions[id].amount)
    /\ \A id \in DOMAIN float_movements :
         \A req \in OwnerUpdates("update_float_movement", float_movements, id, "withdraw") :
            LET after == Serve(DB, req, now + 1).db.float_movements
            IN  /\ id \in DOMAIN after
                /\ MovementIdentity(after[id]) = MovementIdentity(float_movements[id])
                /\ after[id].amount = BodyGetAmount(req, float_movements[id].amount)

\* A transaction was updated, and an update whose body names other values
\* for its identity columns commits a new amount.
C25_Witness ==
    /\ Last.op = "update_transaction"
    /\ Last.commits = 1
    /\ Last.id \in DOMAIN transactions
    /\ \E req \in OwnerUpdates("update_transaction", transactions, Last.id, "withdrawal") :
          /\ req.type = "withdrawal"
          /\ req.type # transactions[Last.id].type
          /\ Serve(DB, req, now + 1).s.result.commits = 1
          /\ Serve(DB, req, now + 1).db.transactions[Last.id].amount
                # transactions[Last.id].amount

(***************************************************************************)
(* C26.  A create, update or delete of a Transaction or FloatMovement of   *)
(* (shop S, provider P, category C) leaves the CashBalance row of every    *)
(* other shop and the FloatBalance row of every other (shop, provider,     *)
(* category) as they were.                                                 *)
(***************************************************************************)
\* The ledger row the step created, updated or deleted.
OwnRow ==
    CASE response'[Caller].op = "create_transaction" ->
            transactions'[issued'.transactions]
      [] response'[Caller].op \in {"create_float_topup", "create_float_withdraw"} ->
            float_movements'[issued'.float_movements]
      [] response'[Caller].op \in {"update_transaction", "delete_transaction"} ->
            transactions[response'[Caller].id]
      [] OTHER -> float_movements[response'[Caller].id]

\* Row x of table f is the same, or as absent, in g.
SameRow(f, g, x) ==
    /\ (x \in DOMAIN f) = (x \in DOMAIN g)
    /\ x \in DOMAIN f => f[x] = g[x]

C26_EffectsConfinedToOwnKeys ==
    [][\A op \in LedgerOps :
          Served(op) =>
            /\ \A sh \in Shops \ {OwnRow.shop_id} :
                   SameRow(cash_balances, cash_balances', sh)
            /\ \A k \in FloatKeys \ {RowKey(OwnRow)} :
                   SameRow(float_balances, float_balances', k)
      ]_vars

\* A ledger operation committed while the other shop has a cash balance
\* and another triple has a float balance.
C26_Witness ==
    /\ Last.op \in LedgerOps
    /\ Last.commits > 0
    /\ DOMAIN cash_balances = Shops
    /\ \E k, l \in DOMAIN float_balances : k # l

(***************************************************************************)
(* C27.  No create, update or delete of a Transaction or FloatMovement     *)
(* removes a balance row: a CashBalance or FloatBalance row that exists    *)
(* before the operation exists after it, also when the operation deletes   *)
(* the last ledger row of its key.                                         *)
(***************************************************************************)
C27_BalanceRowsNeverRemoved ==
    [][\A op \in LedgerOps :
          (now' = now + 1 /\ response'[Caller].op = op) =>
            /\ DOMAIN cash_balances \subseteq DOMAIN cash_balances'
            /\ DOMAIN float_balances \subseteq DOMAIN float_balances'
      ]_vars

\* The last ledger row was deleted and its balance rows are still there.
C27_Witness ==
    /\ Last.op \in {"delete_transaction", "delete_float_movement"}
    /\ Last.commits > 0
    /\ DOMAIN transactions = {} /\ DOMAIN float_movements = {}
    /\ DOMAIN float_balances # {} /\ DOMAIN cash_balances # {}

(***************************************************************************)
(* C28.  An operation that changes balances stamps both rows it touches:   *)
(* after create_transaction, update_transaction, delete_transaction and    *)
(* after the operations that call update_balances, last_updated of the     *)
(* FloatBalance row and of the CashBalance row of the operation is not     *)
(* earlier than the start of the operation.                                *)
(***************************************************************************)
C28_LastUpdatedStamped ==
    [][\A op \in LedgerOps :
          Served(op) =>
            /\ float_balances'[RowKey(OwnRow)].last_updated >= now'
            /\ cash_balances'[OwnRow.shop_id].last_updated >= now'
      ]_vars

(***************************************************************************)
(* C29.  An update or delete request that names a Transaction or           *)
(* FloatMovement id of no row ends with 404 and leaves every balance row   *)
(* and every ledger row unchanged.                                         *)
(***************************************************************************)
\* The ids that name no row: issued and deleted, or never issued
MissingIds(rows, issued_ids) == (1 .. issued_ids + 1) \ DOMAIN rows

\* The update and delete requests on id by user u
OnId(update, delete, id, u, type) ==
    { WithBody([Request(update, u) EXCEPT !.id = id, !.amount = am], b) :
        am \in OptionalAmounts, b \in UpdateBodies(type) }
      \cup { [Request(delete, u) EXCEPT !.id = id] }

NotFoundUnchanged(req) ==
    LET r == Serve(DB, req, now + 1)
    IN  r.s.result.status = 404 /\ r.db = DB

C29_MissingIdNotFound ==
    \A u \in Users :
        /\ \A id \in MissingIds(transactions, issued.transactions) :
              \A req \in OnId("update_transaction", "delete_transaction", id, u, "withdrawal") :
                  NotFoundUnchanged(req)
        /\ \A id \in MissingIds(float_movements, issued.float_movements) :
              \A req \in OnId("update_float_movement", "delete_float_movement", id, u,
                              "withdraw") :
                  NotFoundUnchanged(req)

\* With ledger rows and balances in place, a request naming an id of no
\* row received 404.
C29_Witness ==
    /\ Last.status = 404
    /\ Last.op \in {"update_transaction", "delete_transaction",
                    "update_float_movement", "delete_float_movement"}
    /\ Last.id \notin DOMAIN transactions \cup DOMAIN float_movements
    /\ DOMAIN transactions \cup DOMAIN float_movements # {}
    /\ DOMAIN float_balances # {}

(***************************************************************************)
(* C30.  In every committed state, each Transaction row has a FloatBalance *)
(* row for its (shop_id, provider_id, category) and a CashBalance row for  *)
(* its shop_id: update_transaction and delete_transaction, which read the  *)
(* two rows without creating them, never find one missing.                 *)
(***************************************************************************)
C30_TransactionHasBalanceRows ==
    /\ \A id \in DOMAIN transactions :
          /\ RowKey(transactions[id]) \in DOMAIN float_balances
          /\ transactions[id].shop_id \in DOMAIN cash_balances
    /\ \A c \in Clients :
          session[c].pc = "tx_q_cash" =>
              \/ StepSession(DB, session[c], now).s.pc # "failed"
              \/ session[c].req.id \notin DOMAIN transactions

\* An update or a delete of a transaction has read both balance rows and is
\* about to commit, after another request deleted a transaction.
C30_Witness ==
    \E c \in Clients :
        /\ session[c].pc \in {"ut_commit", "dt_commit"}
        /\ session[c].float_balance.state = "persistent"
        /\ session[c].cash_balance.state = "persistent"
        /\ \E d \in Clients : response[d].op = "delete_transaction" /\ response[d].status = 200

(***************************************************************************)
(* C31.  Value is conserved between cash and float: a create, update or    *)
(* delete of a Transaction, of a withdraw movement or of a top-up that is  *)
(* not new capital leaves the sum of the shop's cash balance and the float *)
(* balance of the touched triple as it was; only a top_up applied with     *)
(* is_new_capital changes the sum, by the amount applied.                  *)
(***************************************************************************)
CashPlusFloat(D, row) == CashOf(D, row.shop_id) + FloatOf(D, RowKey(row))

\* The step applies a top_up of new capital: it creates one, or updates one.
AppliesCapital ==
    /\ response'[Caller].op \in {"create_float_topup", "update_float_movement"}
    /\ OwnRow.type = "top_up"
    /\ OwnRow.is_new_capital

MovementChanges == {"update_float_movement", "delete_float_movement"}

\* The record session s changes is still in its table.
RecordExists(D, s) ==
    IF s.req.op \in TransactionChanges THEN s.req.id \in DOMAIN D.transactions
    ELSE s.req.id \in DOMAIN D.float_movements

\* The next round trip of session s commits the reversal of its record.
AtReversalCommit(s) ==
    \/ s.req.op \in TransactionChanges /\ s.pc \in {"ut_commit", "dt_commit"}
    \/ s.req.op \in MovementChanges /\ s.pc = "ub_commit"
         /\ s.ret \in {"ufm_commit", "dfm_commit"}

\* Session s has committed the reversal of its movement and not yet the
\* change of the row.
HasReversed(s) ==
    s.req.op \in MovementChanges /\ s.pc \in {"ufm_commit", "dfm_commit"}

C32_ReversedAtMostOnce ==
    [][\A c \in Clients :
          ( /\ Proceed(c)
            /\ AtReversalCommit(session[c])
            /\ StepSession(DB, session[c], now).s.commits > session[c].commits )
          => /\ RecordExists(DB, session[c])
             /\ \A d \in Clients \ {c} :
                   ~( /\ HasReversed(session[d])
                      /\ session[c].req.op \in MovementChanges
                      /\ session[d].req.id = session[c].req.id )
      ]_vars

(***************************************************************************)
(* C33.  set_cash_opening_balance with value v, let through, ends with the *)
(* CashBalance row of the shop present and balance = opening_balance = v,  *)
(* whatever transactions and movements were applied before.                *)
(***************************************************************************)
C33_OpeningBalanceResetsBalance ==
    \A req \in SetCashOpeningBalanceRequests :
        Preamble(DB, req) = 200 =>
            LET r == Serve(DB, req, now + 1)
                v == BodyGetAmount(req, 0)
            IN  /\ r.s.result.status = 200
                /\ req.shop_id \in DOMAIN r.db.cash_balances
                /\ r.db.cash_balances[req.shop_id].balance = v
                /\ r.db.cash_balances[req.shop_id].opening_balance = v

C33_Witness ==
    /\ Last.op = "set_cash_opening_balance" /\ Last.status = 200
    /\ LedgerCash(DB, "s1") # 0
    /\ "s1" \in DOMAIN cash_balances
    /\ cash_balances["s1"].balance = 2
    /\ cash_balances["s1"].opening_balance = 2

(***************************************************************************)
(* Claims on the auth routes.                                              *)
(***************************************************************************)
AuthLast == auth_response[Caller]

\* The step serves a request of route op to Caller.
AuthServed(op) == now' = now + 1 /\ auth_response'[Caller].op = op

\* Token k has a row that is neither revoked nor expired at time t.
Acceptable(k, t) ==
    /\ k \in DOMAIN refresh_tokens
    /\ ~refresh_tokens[k].revoked
    /\ refresh_tokens[k].expires_at > t

(***************************************************************************)
(* C34.  A refresh token revoked by logout is never accepted again: a      *)
(* revoked row stays revoked for as long as it exists, and refresh_token   *)
(* answers 200 with an access token exactly for a token whose row exists,  *)
(* is not revoked and is not expired, and 401 without one otherwise.       *)
(***************************************************************************)
C34_RevokedTokenNeverAccepted ==
    [][ /\ \A k \in DOMAIN refresh_tokens \cap DOMAIN refresh_tokens' :
              refresh_tokens[k].revoked => refresh_tokens'[k].revoked
        /\ AuthServed("refresh_token") =>
              LET r == auth_response'[Caller]
              IN  IF Acceptable(r.req.token, now + 1)
                  THEN r.status = 200 /\ r.access_token
                  ELSE r.status = 401 /\ ~r.access_token
      ]_vars

\* The token of the first login was revoked by logout and, not yet
\* expired, was then refused.
C34_Witness ==
    /\ AuthLast.op = "refresh_token" /\ AuthLast.status = 401
    /\ AuthLast.req.token \in DOMAIN refresh_tokens
    /\ refresh_tokens[AuthLast.req.token].revoked
    /\ refresh_tokens[AuthLast.req.token].expires_at > now

(***************************************************************************)
(* C35.  A successful change_password or reset_cashier_password leaves no  *)
(* refresh token of that user that was issued before it, and stores no     *)
(* hash but that of the new password; a refresh token that is gone never   *)
(* comes back; a change_password or reset_cashier_password that fails      *)
(* leaves the hashes and the tokens unchanged.                             *)
(***************************************************************************)
PasswordRoutes == {"change_password", "reset_cashier_password"}

\* The user whose password the request of response r changes.
PasswordTarget(r) ==
    IF r.op = "change_password" THEN r.req.user ELSE CashierUser[r.req.cashier_id]

HasResetWith(s, i) ==
    s.req.op = "reset_password" /\ s.row = i /\ s.pc \in {"rp_used", "rp_history"}

C36_ResetCodeSingleUse ==
    [][ /\ \A i \in DOMAIN password_reset_tokens :
              password_reset_tokens[i].used_at # 0
                => password_reset_tokens'[i].used_at # 0
        /\ \A c \in Clients :
              (ProceedAuth(c) /\ auth_session[c].pc = "rp_password")
                => /\ password_reset_tokens[auth_session[c].row].used_at = 0
                   /\ \A d \in Clients \ {c} :
                         ~HasResetWith(auth_session[d], auth_session[c].row)
      ]_vars

(***************************************************************************)
(* C37.  A user has at most one active reset code, an unused and unexpired *)
(* PasswordResetToken row, at any time, also when forgot_password requests *)
(* overlap; forgot_password for a user who has one answers 429 and creates *)
(* no token.                                                               *)
(***************************************************************************)
ActiveCodesOf(u) ==
    { i \in ActiveResetTokens(ADB, now) : password_reset_tokens[i].user_id = u }

C37_OneActiveResetCode ==
    /\ \A u \in Users : Cardinality(ActiveCodesOf(u)) <= 1
    /\ \A c \in Clients :
          (auth_response[c].op = "forgot_password" /\ auth_response[c].status = 429)
            => auth_response[c].commits = 0

==========================================================================
